---- MODULE Spec2Model ----
(***************************************************************************)
(* Verification model of the Python binding layer of the Azure IoT SDK:    *)
(*   device/iothub_client_python/src/iothub_client_python.cpp              *)
(*   service/src/iothub_service_client_python.cpp                          *)
(*   provisioning_device_client/src/provisioning_device_client_python.cpp  *)
(*                                                                         *)
(* The binding forwards calls to a native driver, releases the interpreter *)
(* lock (GIL) around driver calls and re-acquires it in the extern "C"     *)
(* trampolines through which the driver calls user callbacks.              *)
(*                                                                         *)
(* Specifications:                                                         *)
(*   SpecSend      device client session: sends, completion, destroy       *)
(*   SpecCallbacks device client session: registered callbacks, events     *)
(*   SpecCalls     synchronous result propagation of client operations     *)
(*   SpecMessaging service Messaging client, per-send completion           *)
(*   SpecMap       IoTHubMap objects and the process-wide filter slot      *)
(***************************************************************************)
EXTENDS Integers, FiniteSets, Sequences, TLC

(***************************************************************************)
(* Bounds                                                                  *)
(***************************************************************************)
MaxSends == 2

MaxMsgSends == 3

MaxMaps == 3

MaxCalls == 3

MaxFilters == 2

MaxKeys == 2

MaxValues == 2

MaxMessages == 2

MaxLen == 1

MaxHandlers == 2

MaxUses == 2

MaxTimeout == 2

MaxElapsed == 4

MaxDelay == 2

MaxAttempts == 3

MaxClients == 3

MaxCtors == 4

MaxResponse == 2

MaxMethodCalls == 2

(***************************************************************************)
(* Constants of the source                                                *)
(***************************************************************************)
MOCKMESSAGESIZE == 128

(***************************************************************************)
(* Enumerations of the binding                                             *)
(***************************************************************************)
IOTHUB_CLIENT_RESULT ==
    {"OK", "INVALID_ARG", "ERROR", "INVALID_SIZE", "INDEFINITE_TIME"}

IOTHUB_CLIENT_CONFIRMATION_RESULT ==
    {"OK", "BECAUSE_DESTROY", "MESSAGE_TIMEOUT", "ERROR"}

Workers == {"w1", "w2"}

Ops == 1..MaxSends

CallbackKinds == {"message", "connection_status", "twin", "method"}

UserOutcomes == {"value", "bad_value", "raise"}

NoJob == [kind |-> "none", op |-> 0, result |-> "none"]

\* The Python callables an application registers as receive handlers.
Handlers == 1..MaxHandlers

NoHandler == 0

VARIABLES
    gil,                \* thread holding the interpreter lock, or "none"
    appPc,              \* application thread: "python" | "blocked" | "inDriver"
    appOp,              \* operation the application thread is inside
    appRes,             \* driver result of the call in progress
    appErr,             \* exception the last operation raised to its caller
    clientState,        \* "alive" | "destroying" | "destroyed"
    iotHubClientHandle, \* "live" | "NULL"
    sendContext,        \* op -> "none" | "allocated" | "deleted"
    eventMessage,       \* op -> state of the clone held by the SendContext
    origAlive,          \* ops whose caller-owned message still exists
    drvAccepted,        \* ops the driver accepted
    drvPending,         \* ops the driver still has to complete
    drvMsg,             \* op -> message handle the driver was given
    drvCb,              \* kind -> TRUE when a trampoline is registered
    wPc,                \* worker -> "idle" | "entered" | "inCallback"
    wJob,               \* worker -> trampoline call in progress
    cbCount,            \* op -> number of invocations of the user callback
    cbResult,           \* op -> result the user callback received
    pendingAtDestroy,   \* ops pending when the destructor was entered
    escaped,            \* kinds whose trampoline let an exception escape
    errPrinted,         \* TRUE once a trampoline called PyErr_Print
    receiveContext,     \* messageCallback of the ReceiveContext the driver holds
    newContext,         \* messageCallback of the ReceiveContext being registered
    activeHandler,      \* handler of the last registration that returned OK
    messageCallback     \* worker -> messageCallback copied by the trampoline

handlerVars == << receiveContext, newContext, activeHandler, messageCallback >>

clientVars ==
    << gil, appPc, appOp, appRes, appErr, clientState, iotHubClientHandle,
       sendContext, eventMessage, origAlive, drvAccepted, drvPending, drvMsg,
       drvCb, wPc, wJob, cbCount, cbResult, pendingAtDestroy, escaped,
       errPrinted, handlerVars >>

VARIABLES
    lastCall,           \* outcome of the last synchronous operation
    numCalls            \* operations called so far

VARIABLES
    callbackContext,    \* operation -> callback object its context holds
    lastUse,            \* the last call of an operation that takes a callback
    numUses             \* calls of such operations made so far

usageVars == << callbackContext, lastUse, numUses >>

VARIABLES
    retryPolicy,        \* policy kind the driver holds
    retryTimeoutLimit,  \* retryTimeoutLimitInSeconds the driver holds
    requestedLimit,     \* limit of the last set_retry_policy that returned OK
    connection,         \* "connected", "retrying", "stopped" or "expired"
    elapsed,            \* seconds since the first failure
    attempt,            \* reconnect attempts scheduled since the first failure
    nextAttemptAt,      \* elapsed time at which the next decision is due
    lateRetry,          \* TRUE once an attempt was scheduled past the limit
    statusSeen          \* what the connection-status callback last received

retryVars ==
    << retryPolicy, retryTimeoutLimit, requestedLimit, connection, elapsed,
       attempt, nextAttemptAt, lateRetry, statusSeen >>

VARIABLES
    authNative,         \* the native auth handle: "none", "live" or "destroyed"
    authDestroyed,      \* calls of IoTHubServiceClientAuth_Destroy on it
    authObject,         \* the IoTHubServiceClientAuth object
    serviceClients,     \* client id -> service client object
    authStale           \* TRUE once the driver was given the destroyed handle

authVars ==
    << authNative, authDestroyed, authObject, serviceClients, authStale >>

VARIABLES
    init_call_count,    \* PlatformCallHandler::init_call_count
    platformUp,         \* platform_init was called and platform_deinit not since
    platformCalls,      \* the calls of platform_init / platform_deinit, in order
    clientObjects,      \* client id -> "none", "live" or "live_no_handle"
    numCtors,           \* constructor calls made so far
    deinitWhileAlive    \* TRUE once platform_deinit ran with a client alive

platformVars ==
    << init_call_count, platformUp, platformCalls, clientObjects, numCtors,
       deinitWhileAlive >>

VARIABLES
    routine,            \* thread -> the binding function it executes, or "none"
    routinePc,          \* thread -> index of its next step
    lockHolder,         \* thread holding the interpreter lock, or "none"
    unlockedTouch       \* last << function, step >> that touched interpreter
                        \* objects without the lock

lockVars == << routine, routinePc, lockHolder, unlockedTouch >>

VARIABLES
    methodContext,      \* "none" or "registered": the DeviceMethodContext
    methodCall,         \* arguments and circumstances of the last method call
    methodReturn,       \* retVal, *response and *resp_size after that call
    numMethodCalls      \* method calls delivered so far

methodVars == << methodContext, methodCall, methodReturn, numMethodCalls >>

VARIABLES
    threadPc,           \* thread -> its position in Platform_Init / _DeInit
    threadCount,        \* thread -> the value of init_call_count it has read
    threadObject,       \* thread -> the client object it is constructing
    netInitCalls        \* completed Platform_Init calls minus completed
                        \* Platform_DeInit calls

raceVars == << threadPc, threadCount, threadObject, netInitCalls >>

auxVars == << retryVars, authVars, platformVars, lockVars, methodVars, raceVars >>

callVars == << lastCall, numCalls, usageVars, auxVars >>

VARIABLES
    sendCompleteContext, \* callback stored in the Messaging client's context
    msgNext,             \* number of send_async calls made
    msgPending,          \* sends the driver still has to complete
    msgDrvResult,        \* send -> result the driver reported
    msgInvoked,          \* send -> callback its completion invoked
    msgSeen              \* send -> result that callback received

messagingVars ==
    << sendCompleteContext, msgNext, msgPending, msgDrvResult, msgInvoked,
       msgSeen >>

VARIABLES
    mapFilterCallback,  \* the process-wide filter slot (0: empty)
    maps,               \* map id -> record of a live IoTHubMap, or NoMap
    lastMapOp           \* outcome of the last Map creation

mapVars == << mapFilterCallback, maps, lastMapOp >>

VARIABLES
    mockFilterFunc,     \* filter of the Map store (0: NULL)
    mockKey,            \* key buffer of the Map store (0: empty buffer)
    mockValue,          \* value buffer of the Map store (0: empty buffer)
    lastSuccess,        \* key -> last successful operation on it
    lastMapCall         \* outcome of the last IoTHubMap method call

mapContentVars ==
    << mockFilterFunc, mockKey, mockValue, lastSuccess, lastMapCall >>

VARIABLES
    mockBuffer,         \* body buffer of the message store
    mockSize,           \* byte count of the message store
    mockString,         \* the message store holds a string
    messages,           \* message id -> record of an IoTHubMessage object
    lastMsgCall         \* outcome of the last IoTHubMessage method call

messageVars == << mockBuffer, mockSize, mockString, messages, lastMsgCall >>

objectVars == << mapContentVars, messageVars >>

nonClientVars == << callVars, messagingVars, mapVars, objectVars >>

vars == << clientVars, callVars, messagingVars, mapVars, objectVars >>

\* Everything but auxVars.
baseVars ==
    << clientVars, lastCall, numCalls, usageVars, messagingVars, mapVars,
       objectVars >>

(***************************************************************************)
(* Device client session (iothub_client_python.cpp)                        *)
(***************************************************************************)

\* The application thread runs interpreter code, which holds the lock.
AppInPython == appPc = "python" /\ gil = "app"

\* Ops are handed out in order: the next SendContext to be allocated.
NextOp == CHOOSE op \in Ops \cup {MaxSends + 1} :
              /\ op \in Ops => sendContext[op] = "none"
              /\ \A o \in Ops : o < op => sendContext[o] # "none"

\* The message handle SendEventAsync passes to the driver: eventMessage.Handle(),
\* the handle of the caller's message (the clone stays in the SendContext).
SendEventAsync_MessageArg == "orig"

\* Every operation that ends in `if (result != IOTHUB_CLIENT_OK) throw
\* IoTHubClientError(__func__, result)`.
ThrowIfNotOk(r) == IF r # "OK" THEN "IoTHubClientError" ELSE "none"

\* IoTHubClient::SetOption only prints a non-OK driver result.
SetOption_Raise(r) == "none"

\* Exception raised to the caller when the driver call of appOp returned r.
RaisedOnReturn(op, r) ==
    IF op = "set_option" THEN SetOption_Raise(r) ELSE ThrowIfNotOk(r)

\* The interpreter hands the lock over while the application thread blocks
\* (sleep, I/O): it is the only way callbacks run outside a binding call.
PyBlock ==
    /\ AppInPython
    /\ appPc' = "blocked"
    /\ gil' = "none"
    /\ UNCHANGED << appOp, appRes, appErr, clientState, iotHubClientHandle,
                    sendContext, eventMessage, origAlive, drvAccepted,
                    drvPending, drvMsg, drvCb, wPc, wJob, cbCount, cbResult,
                    pendingAtDestroy, escaped, errPrinted >>
    /\ UNCHANGED handlerVars
    /\ UNCHANGED nonClientVars

PyUnblock ==
    /\ appPc = "blocked"
    /\ gil = "none"
    /\ appPc' = "python"
    /\ gil' = "app"
    /\ UNCHANGED << appOp, appRes, appErr, clientState, iotHubClientHandle,
                    sendContext, eventMessage, origAlive, drvAccepted,
                    drvPending, drvMsg, drvCb, wPc, wJob, cbCount, cbResult,
                    pendingAtDestroy, escaped, errPrinted >>
    /\ UNCHANGED handlerVars
    /\ UNCHANGED nonClientVars

\* IoTHubClient::SendEventAsync up to the driver call (the lock is released
\* around it); r is the result the driver returns.
SendEventAsync(op, callable, r) ==
    /\ AppInPython
    /\ clientState = "alive"
    /\ op = NextOp
    /\ op \in Ops
    /\ op \in origAlive
    /\ IF ~callable
       THEN /\ appErr' = "TypeError"
            /\ UNCHANGED << gil, appPc, appOp, appRes, sendContext,
                            eventMessage, drvAccepted, drvPending, drvMsg >>
       ELSE /\ sendContext' = [sendContext EXCEPT ![op] = "allocated"]
            /\ eventMessage' = [eventMessage EXCEPT ![op] = "alive"]
            /\ gil' = "none"
            /\ appPc' = "inDriver"
            /\ appOp' = "send_event_async"
            /\ appRes' = r
            /\ appErr' = "none"
            /\ IF r = "OK"
               THEN /\ drvAccepted' = drvAccepted \cup {op}
                    /\ drvPending' = drvPending \cup {op}
                    /\ drvMsg' = [drvMsg EXCEPT ![op] = SendEventAsync_MessageArg]
               ELSE UNCHANGED << drvAccepted, drvPending, drvMsg >>
    /\ UNCHANGED << clientState, iotHubClientHandle, origAlive, drvCb, wPc,
                    wJob, cbCount, cbResult, pendingAtDestroy, escaped,
                    errPrinted >>
    /\ UNCHANGED handlerVars
    /\ UNCHANGED nonClientVars

\* SetMessageCallback / SetConnectionStatusCallback / SetTwinCallback /
\* SetMethodCallback up to the driver call: a fresh context is allocated
\* (it is never released) and registered with the trampoline.
SetCallbackWith(kind, handler, callable, r) ==
    /\ AppInPython
    /\ clientState = "alive"
    /\ IF ~callable
       THEN /\ appErr' = "TypeError"
            /\ UNCHANGED << gil, appPc, appOp, appRes, drvCb, receiveContext,
                            newContext >>
       ELSE /\ gil' = "none"
            /\ appPc' = "inDriver"
            /\ appOp' = "set_callback"
            /\ appRes' = r
            /\ appErr' = "none"
            /\ drvCb' = IF r = "OK" THEN [drvCb EXCEPT ![kind] = TRUE] ELSE drvCb
            /\ newContext' = IF kind = "message" THEN handler ELSE NoHandler
            /\ receiveContext' = IF kind = "message" /\ r = "OK"
                                 THEN handler
                                 ELSE receiveContext
    /\ UNCHANGED << activeHandler, messageCallback >>
    /\ UNCHANGED << clientState, iotHubClientHandle, sendContext, eventMessage,
                    origAlive, drvAccepted, drvPending, drvMsg, wPc, wJob,
                    cbCount, cbResult, pendingAtDestroy, escaped, errPrinted >>
    /\ UNCHANGED nonClientVars

\* Every registration kind with the one handler a single-handler program has.
SetCallback(kind, callable, r) == SetCallbackWith(kind, 1, callable, r)

\* IoTHubClient::SetMessageCallback with the Python callable it is given.
SetMessageCallback(handler, callable, r) ==
    SetCallbackWith("message", handler, callable, r)

\* IoTHubClient::SetOption and SetRetryPolicy up to the driver call.
ConfigCall(op, r) ==
    /\ AppInPython
    /\ clientState = "alive"
    /\ op \in {"set_option", "set_retry_policy"}
    /\ gil' = "none"
    /\ appPc' = "inDriver"
    /\ appOp' = op
    /\ appRes' = r
    /\ appErr' = "none"
    /\ UNCHANGED << clientState, iotHubClientHandle, sendContext, eventMessage,
                    origAlive, drvAccepted, drvPending, drvMsg, drvCb, wPc,
                    wJob, cbCount, cbResult, pendingAtDestroy, escaped,
                    errPrinted >>
    /\ UNCHANGED handlerVars
    /\ UNCHANGED nonClientVars

\* The driver call returns: ~ScopedGILRelease re-acquires the lock and the
\* operation raises or returns according to the driver result.
AppReturn ==
    /\ appPc = "inDriver"
    /\ appOp # "destroy"
    /\ gil = "none"
    /\ gil' = "app"
    /\ appPc' = "python"
    /\ appErr' = RaisedOnReturn(appOp, appRes)
    /\ appOp' = "none"
    /\ appRes' = "OK"
    /\ UNCHANGED << clientState, iotHubClientHandle, sendContext, eventMessage,
                    origAlive, drvAccepted, drvPending, drvMsg, drvCb, wPc,
                    wJob, cbCount, cbResult, pendingAtDestroy, escaped,
                    errPrinted >>
    /\ newContext' = NoHandler
    /\ activeHandler' = IF newContext # NoHandler /\ appRes = "OK"
                        THEN newContext
                        ELSE activeHandler
    /\ UNCHANGED << receiveContext, messageCallback >>
    /\ UNCHANGED nonClientVars

\* ~IoTHubMessage of a caller-owned message: IoTHubMessage_Destroy(handle).
DestroyOriginal(op) ==
    /\ AppInPython
    /\ op \in origAlive
    /\ origAlive' = origAlive \ {op}
    /\ UNCHANGED << gil, appPc, appOp, appRes, appErr, clientState,
                    iotHubClientHandle, sendContext, eventMessage, drvAccepted,
                    drvPending, drvMsg, drvCb, wPc, wJob, cbCount, cbResult,
                    pendingAtDestroy, escaped, errPrinted >>
    /\ UNCHANGED handlerVars
    /\ UNCHANGED nonClientVars

\* Mutant: the destructor enters the driver's destroy without releasing the
\* interpreter lock.
DestroyBegin_LockHeld ==
    /\ AppInPython
    /\ clientState = "alive"
    /\ iotHubClientHandle # "NULL"
    /\ gil' = gil
    /\ appPc' = "inDriver"
    /\ appOp' = "destroy"
    /\ clientState' = "destroying"
    /\ pendingAtDestroy' = drvPending
    /\ UNCHANGED << appRes, appErr, iotHubClientHandle, sendContext,
                    eventMessage, origAlive, drvAccepted, drvPending, drvMsg,
                    drvCb, wPc, wJob, cbCount, cbResult, escaped, errPrinted >>
    /\ UNCHANGED handlerVars
    /\ UNCHANGED nonClientVars

\* ~IoTHubClient: with a live handle the lock is released and the driver's
\* destroy is entered.
DestroyBegin ==
    /\ AppInPython
    /\ clientState = "alive"
    /\ iotHubClientHandle # "NULL"
    /\ gil' = "none"
    /\ appPc' = "inDriver"
    /\ appOp' = "destroy"
    /\ clientState' = "destroying"
    /\ pendingAtDestroy' = drvPending
    /\ UNCHANGED << appRes, appErr, iotHubClientHandle, sendContext,
                    eventMessage, origAlive, drvAccepted, drvPending, drvMsg,
                    drvCb, wPc, wJob, cbCount, cbResult, escaped, errPrinted >>
    /\ UNCHANGED handlerVars
    /\ UNCHANGED nonClientVars

\* Driver contract: destroy returns once every pending send has been
\* completed and the completion calls have returned.
DriverDestroyReturns ==
    /\ drvPending = {}
    /\ \A w \in Workers : wJob[w].kind # "send"

\* ~IoTHubClient after the driver's destroy returned: the lock is re-acquired
\* and the handle cleared.  Registered callback contexts are left as they are.
DestroyFinish ==
    /\ appPc = "inDriver"
    /\ appOp = "destroy"
    /\ DriverDestroyReturns
    /\ gil = "none"
    /\ gil' = "app"
    /\ appPc' = "python"
    /\ appOp' = "none"
    /\ iotHubClientHandle' = "NULL"
    /\ clientState' = "destroyed"
    /\ UNCHANGED << appRes, appErr, sendContext, eventMessage, origAlive,
                    drvAccepted, drvPending, drvMsg, drvCb, wPc, wJob, cbCount,
                    cbResult, pendingAtDestroy, escaped, errPrinted >>
    /\ UNCHANGED handlerVars
    /\ UNCHANGED nonClientVars

(***************************************************************************)
(* Driver side: the driver calls the registered extern "C" trampolines on  *)
(* its own threads, passing back the context pointer it was given.         *)
(***************************************************************************)

\* Driver contract: a worker takes a pending send off the list and reports
\* its terminal result through SendConfirmationCallback.  The trampoline
\* copies the callback and context out of the SendContext on entry.
DriverReportResult(w, op, res) ==
    /\ clientState = "alive"
    /\ wPc[w] = "idle"
    /\ op \in drvPending
    /\ res \in IOTHUB_CLIENT_CONFIRMATION_RESULT \ {"BECAUSE_DESTROY"}
    /\ drvPending' = drvPending \ {op}
    /\ wPc' = [wPc EXCEPT ![w] = "entered"]
    /\ wJob' = [wJob EXCEPT ![w] = [kind |-> "send", op |-> op, result |-> res]]
    /\ UNCHANGED << gil, appPc, appOp, appRes, appErr, clientState,
                    iotHubClientHandle, sendContext, eventMessage, origAlive,
                    drvAccepted, drvMsg, drvCb, cbCount, cbResult,
                    pendingAtDestroy, escaped, errPrinted >>
    /\ UNCHANGED handlerVars
    /\ UNCHANGED nonClientVars

\* Driver contract: destroy completes every send still pending with
\* BECAUSE_DESTROY.
DriverDestroyFlush(w, op) ==
    /\ clientState = "destroying"
    /\ wPc[w] = "idle"
    /\ op \in drvPending
    /\ drvPending' = drvPending \ {op}
    /\ wPc' = [wPc EXCEPT ![w] = "entered"]
    /\ wJob' = [wJob EXCEPT ![w] =
                   [kind |-> "send", op |-> op, result |-> "BECAUSE_DESTROY"]]
    /\ UNCHANGED << gil, appPc, appOp, appRes, appErr, clientState,
                    iotHubClientHandle, sendContext, eventMessage, origAlive,
                    drvAccepted, drvMsg, drvCb, cbCount, cbResult,
                    pendingAtDestroy, escaped, errPrinted >>
    /\ UNCHANGED handlerVars
    /\ UNCHANGED nonClientVars

\* The driver delivers an inbound event (message, connection status, twin
\* update, method call) to the trampoline registered for it.  The context it
\* passes stays valid for the life of the process, so a delivery can also
\* arrive after the session was destroyed.
DriverDeliver(w, kind) ==
    /\ wPc[w] = "idle"
    /\ drvCb[kind]
    /\ wPc' = [wPc EXCEPT ![w] = "entered"]
    /\ wJob' = [wJob EXCEPT ![w] = [kind |-> kind, op |-> 0, result |-> "none"]]
    /\ UNCHANGED << gil, appPc, appOp, appRes, appErr, clientState,
                    iotHubClientHandle, sendContext, eventMessage, origAlive,
                    drvAccepted, drvPending, drvMsg, drvCb, cbCount, cbResult,
                    pendingAtDestroy, escaped, errPrinted >>
    /\ messageCallback' = [messageCallback EXCEPT ![w] =
                               IF kind = "message" THEN receiveContext
                                                   ELSE NoHandler]
    /\ UNCHANGED << receiveContext, newContext, activeHandler >>
    /\ UNCHANGED nonClientVars

\* Mutant: the trampoline overwrites the result before the call.
SendConfirmationCallback_ResultOverwritten(result) == "OK"

\* SendConfirmationCallback passes the driver's result to the user callback
\* as it received it.
SendConfirmationCallback_Result(result) == result

\* Mutant: the trampoline goes on without waiting for the lock.
ScopedGILAcquire_NoWait(w) == gil' = w

\* ScopedGILAcquire: a trampoline proceeds to the user callback only once the
\* interpreter lock is free, and then holds it.
ScopedGILAcquire(w) ==
    /\ gil = "none"
    /\ gil' = w

\* Mutant: a send confirmation with BECAUSE_DESTROY is dropped without
\* calling the user callback.
TrampolineCall_DropOnDestroy(w) ==
    /\ wPc[w] = "entered"
    /\ ScopedGILAcquire(w)
    /\ wPc' = [wPc EXCEPT ![w] = "inCallback"]
    /\ IF wJob[w].kind = "send" /\ wJob[w].result # "BECAUSE_DESTROY"
       THEN /\ cbCount' = [cbCount EXCEPT ![wJob[w].op] = @ + 1]
            /\ cbResult' = [cbResult EXCEPT ![wJob[w].op] =
                               SendConfirmationCallback_Result(wJob[w].result)]
       ELSE UNCHANGED << cbCount, cbResult >>
    /\ UNCHANGED << appPc, appOp, appRes, appErr, clientState,
                    iotHubClientHandle, sendContext, eventMessage, origAlive,
                    drvAccepted, drvPending, drvMsg, drvCb, wJob,
                    pendingAtDestroy, escaped, errPrinted >>
    /\ UNCHANGED handlerVars
    /\ UNCHANGED nonClientVars

\* A trampoline acquires the lock and calls the user callback.
TrampolineCall(w) ==
    /\ wPc[w] = "entered"
    /\ ScopedGILAcquire(w)
    /\ wPc' = [wPc EXCEPT ![w] = "inCallback"]
    /\ IF wJob[w].kind = "send"
       THEN /\ cbCount' = [cbCount EXCEPT ![wJob[w].op] = @ + 1]
            /\ cbResult' = [cbResult EXCEPT ![wJob[w].op] =
                               SendConfirmationCallback_Result(wJob[w].result)]
       ELSE UNCHANGED << cbCount, cbResult >>
    /\ UNCHANGED << appPc, appOp, appRes, appErr, clientState,
                    iotHubClientHandle, sendContext, eventMessage, origAlive,
                    drvAccepted, drvPending, drvMsg, drvCb, wJob,
                    pendingAtDestroy, escaped, errPrinted >>
    /\ UNCHANGED handlerVars
    /\ UNCHANGED nonClientVars

\* What the trampoline does once the user callback came back with `outcome`
\* ("value": a value of the expected type, "bad_value": any other object,
\* "raise": an exception): "returned" to the driver, or "escaped" when an
\* exception leaves the trampoline.
\* SendConfirmationCallback, ConnectionStatusCallback, DeviceTwinCallback:
\* void, the call is inside try/catch and the return value is not used.
VoidTrampoline(outcome) == "returned"

\* ReceiveMessageCallback: the call is inside try/catch, but
\* extract<IOTHUBMESSAGE_DISPOSITION_RESULT>(returnObject) runs after it;
\* returnObject is None when the callback raised.
ReceiveMessageCallback(outcome) ==
    IF outcome = "value" THEN "returned" ELSE "escaped"

\* DeviceMethodCallback: the call and the extract<DeviceMethodReturnValue>
\* are both inside try/catch; retVal stays -1 on an exception.
DeviceMethodCallback(outcome) == "returned"

TrampolineExit(kind, outcome) ==
    CASE kind = "message" -> ReceiveMessageCallback(outcome)
      [] kind = "method" -> DeviceMethodCallback(outcome)
      [] OTHER -> VoidTrampoline(outcome)

\* PyErr_Print() runs in the catch handlers.
TrampolinePrints(kind, outcome) ==
    \/ outcome = "raise"
    \/ kind = "method" /\ outcome = "bad_value"

\* The user callback comes back; the trampoline releases the lock and, for a
\* send confirmation, deletes the SendContext and the cloned message.
TrampolineReturn(w, outcome) ==
    /\ wPc[w] = "inCallback"
    /\ gil' = "none"
    /\ wPc' = [wPc EXCEPT ![w] = "idle"]
    /\ wJob' = [wJob EXCEPT ![w] = NoJob]
    /\ errPrinted' = (errPrinted \/ TrampolinePrints(wJob[w].kind, outcome))
    /\ escaped' = IF TrampolineExit(wJob[w].kind, outcome) = "escaped"
                  THEN escaped \cup {wJob[w].kind}
                  ELSE escaped
    /\ IF wJob[w].kind = "send"
       THEN /\ sendContext' = [sendContext EXCEPT ![wJob[w].op] = "deleted"]
            /\ eventMessage' = [eventMessage EXCEPT ![wJob[w].op] = "deleted"]
       ELSE UNCHANGED << sendContext, eventMessage >>
    /\ UNCHANGED << appPc, appOp, appRes, appErr, clientState,
                    iotHubClientHandle, origAlive, drvAccepted, drvPending,
                    drvMsg, drvCb, cbCount, cbResult, pendingAtDestroy >>
    /\ messageCallback' = [messageCallback EXCEPT ![w] = NoHandler]
    /\ UNCHANGED << receiveContext, newContext, activeHandler >>
    /\ UNCHANGED nonClientVars

InitClient ==
    /\ gil = "app"
    /\ appPc = "python"
    /\ appOp = "none"
    /\ appRes = "OK"
    /\ appErr = "none"
    /\ clientState = "alive"
    /\ iotHubClientHandle = "live"
    /\ sendContext = [op \in Ops |-> "none"]
    /\ eventMessage = [op \in Ops |-> "none"]
    /\ origAlive = Ops
    /\ drvAccepted = {}
    /\ drvPending = {}
    /\ drvMsg = [op \in Ops |-> "none"]
    /\ drvCb = [k \in CallbackKinds |-> FALSE]
    /\ wPc = [w \in Workers |-> "idle"]
    /\ wJob = [w \in Workers |-> NoJob]
    /\ cbCount = [op \in Ops |-> 0]
    /\ cbResult = [op \in Ops |-> "none"]
    /\ pendingAtDestroy = {}
    /\ escaped = {}
    /\ errPrinted = FALSE
    /\ receiveContext = NoHandler
    /\ newContext = NoHandler
    /\ activeHandler = NoHandler
    /\ messageCallback = [w \in Workers |-> NoHandler]

\* Sends, their completion and destruction of the session.
NextSend ==
    \/ PyBlock
    \/ PyUnblock
    \/ \E op \in Ops, callable \in BOOLEAN, r \in IOTHUB_CLIENT_RESULT :
           SendEventAsync(op, callable, r)
    \/ AppReturn
    \/ \E op \in Ops : DestroyOriginal(op)
    \/ DestroyBegin
    \/ DestroyFinish
    \/ \E w \in Workers, op \in Ops, res \in IOTHUB_CLIENT_CONFIRMATION_RESULT :
           DriverReportResult(w, op, res)
    \/ \E w \in Workers, op \in Ops : DriverDestroyFlush(w, op)
    \/ \E w \in Workers : TrampolineCall(w)
    \/ \E w \in Workers, outcome \in UserOutcomes : TrampolineReturn(w, outcome)

\* Registered callbacks, inbound events and destruction of the session.
NextCallbacks ==
    \/ PyBlock
    \/ PyUnblock
    \/ \E kind \in CallbackKinds, callable \in BOOLEAN, r \in IOTHUB_CLIENT_RESULT :
           SetCallback(kind, callable, r)
    \/ \E op \in {"set_option", "set_retry_policy"}, r \in IOTHUB_CLIENT_RESULT :
           ConfigCall(op, r)
    \/ AppReturn
    \/ DestroyBegin
    \/ DestroyFinish
    \/ \E w \in Workers, kind \in CallbackKinds : DriverDeliver(w, kind)
    \/ \E w \in Workers : TrampolineCall(w)
    \/ \E w \in Workers, outcome \in UserOutcomes : TrampolineReturn(w, outcome)

\* Registration and re-registration of the receive handler while the driver
\* delivers inbound messages.
NextReceive ==
    \/ PyBlock
    \/ PyUnblock
    \/ \E handler \in Handlers, callable \in BOOLEAN, r \in IOTHUB_CLIENT_RESULT :
           SetMessageCallback(handler, callable, r)
    \/ AppReturn
    \/ \E w \in Workers : DriverDeliver(w, "message")
    \/ \E w \in Workers : TrampolineCall(w)
    \/ \E w \in Workers, outcome \in UserOutcomes : TrampolineReturn(w, outcome)


(***************************************************************************)
(* Claims about the device client session                                  *)
(***************************************************************************)

\* A send whose user callback has not run yet is still owed one: the driver
\* holds it, or a SendConfirmationCallback for it waits for the lock.
SendOwed(op) ==
    \/ op \in drvPending
    \/ \E w \in Workers :
           wPc[w] = "entered" /\ wJob[w].kind = "send" /\ wJob[w].op = op

C3_NoCallbackAfterDestroy ==
    clientState = "destroyed" => \A w \in Workers : wPc[w] # "inCallback"

\* C4: the message handle handed to the driver by send_event_async is the
\* clone made by that call, so the driver never holds a handle of a message
\* the caller has destroyed.
C4_DriverHoldsClone ==
    \A op \in drvPending :
        /\ drvMsg[op] = "clone"
        /\ drvMsg[op] = "orig" => op \in origAlive

\* C5: an exception raised by a user callback never leaves the trampoline:
\* for every callback kind it is caught and the trampoline returns normally
\* to the driver.
C5_NoExceptionEscapes == escaped = {}

PROV_DEVICE_RESULT ==
    {"OK", "INVALID_ARG", "SUCCESS", "MEMORY", "PARSING", "TRANSPORT",
     "INVALID_STATE", "DEV_AUTH_ERROR", "TIMEOUT", "KEY_ERROR", "ERROR"}

OptionValueTypes == {"int", "str", "other"}

ProvOptionNames == {"OPTION_TRUSTED_CERT", "logtrace", "OPTION_HTTP_PROXY", "other"}

NoCall == [op |-> "none", called |-> FALSE, drv |-> "none",
           raised |-> "none", code |-> "none"]

\* The operation raised a Python TypeError before calling the driver.
TypeErrorOutcome(op) ==
    [op |-> op, called |-> FALSE, drv |-> "none",
     raised |-> "TypeError", code |-> "none"]

\* The driver was called and returned r; the operation ends in
\* `if (result != OK) throw Error(__func__, result)`.
ThrowingOutcome(op, r, exc) ==
    [op |-> op, called |-> TRUE, drv |-> r,
     raised |-> IF r # "OK" THEN exc ELSE "none",
     code |-> IF r # "OK" THEN r ELSE "none"]

\* IoTHubClient::SetOption: an int or a string value is passed to the driver
\* and a non-OK result is only printed; any other value is a TypeError.
IoTHubClient_SetOption(valueType, r) ==
    IF valueType = "other"
    THEN TypeErrorOutcome("set_option")
    ELSE [op |-> "set_option", called |-> TRUE, drv |-> r,
          raised |-> SetOption_Raise(r), code |-> "none"]

\* IoTHubClient::SetRetryPolicy.
IoTHubClient_SetRetryPolicy(r) ==
    [op |-> "set_retry_policy", called |-> TRUE, drv |-> r,
     raised |-> ThrowIfNotOk(r), code |-> IF r # "OK" THEN r ELSE "none"]

\* IoTHubClient::SendEventAsync, as seen by its caller.
IoTHubClient_SendEventAsync(callable, r) ==
    IF ~callable
    THEN TypeErrorOutcome("send_event_async")
    ELSE [op |-> "send_event_async", called |-> TRUE, drv |-> r,
          raised |-> ThrowIfNotOk(r), code |-> IF r # "OK" THEN r ELSE "none"]

\* ProvisioningDeviceClient::SetOption: the driver result is stored in
\* `result` and only printed when it is not OK; a value of the wrong type
\* sets result to ERROR without a driver call; an unknown option name throws
\* INVALID_ARG.
ProvisioningDeviceClient_SetOption(name, typeOk, r) ==
    CASE name = "other" ->
             [op |-> "prov_set_option", called |-> FALSE, drv |-> "none",
              raised |-> "ProvisioningDeviceClientError", code |-> "INVALID_ARG"]
      [] name = "OPTION_HTTP_PROXY" /\ ~typeOk ->
             TypeErrorOutcome("prov_set_option")
      [] name \in {"OPTION_TRUSTED_CERT", "logtrace"} /\ ~typeOk ->
             [op |-> "prov_set_option", called |-> FALSE, drv |-> "none",
              raised |-> "none", code |-> "none"]
      [] OTHER ->
             [op |-> "prov_set_option", called |-> TRUE, drv |-> r,
              raised |-> "none", code |-> "none"]

\* ProvisioningDeviceClient::Register_Device.
ProvisioningDeviceClient_Register_Device(callable, r) ==
    IF ~callable
    THEN TypeErrorOutcome("register_device")
    ELSE ThrowingOutcome("register_device", r, "ProvisioningDeviceClientError")

\* One synchronous call with the given outcome.
RecordCall(outcome) ==
    /\ numCalls < MaxCalls
    /\ numCalls' = numCalls + 1
    /\ lastCall' = outcome
    /\ UNCHANGED << usageVars, auxVars >>
    /\ UNCHANGED << clientVars, messagingVars, mapVars, objectVars >>

SetOption(valueType, r) == RecordCall(IoTHubClient_SetOption(valueType, r))

SetRetryPolicy(r) == RecordCall(IoTHubClient_SetRetryPolicy(r))

SendEventAsyncCall(callable, r) ==
    RecordCall(IoTHubClient_SendEventAsync(callable, r))

ProvSetOption(name, typeOk, r) ==
    RecordCall(ProvisioningDeviceClient_SetOption(name, typeOk, r))

ProvRegisterDevice(callable, r) ==
    RecordCall(ProvisioningDeviceClient_Register_Device(callable, r))

InitCalls ==
    /\ lastCall = NoCall
    /\ numCalls = 0

NextCalls ==
    \/ \E t \in OptionValueTypes, r \in IOTHUB_CLIENT_RESULT : SetOption(t, r)
    \/ \E r \in IOTHUB_CLIENT_RESULT : SetRetryPolicy(r)
    \/ \E c \in BOOLEAN, r \in IOTHUB_CLIENT_RESULT : SendEventAsyncCall(c, r)
    \/ \E n \in ProvOptionNames, t \in BOOLEAN, r \in PROV_DEVICE_RESULT :
           ProvSetOption(n, t, r)
    \/ \E c \in BOOLEAN, r \in PROV_DEVICE_RESULT : ProvRegisterDevice(c, r)

\* C7: every operation that calls the driver surfaces a non-OK driver result
\* to its caller as an error carrying that result code; set_option,
\* send_event_async and set_retry_policy never return normally when the
\* driver returned a non-OK code.
C7_NonOkResultRaised ==
    (lastCall.called /\ lastCall.drv # "OK") =>
        /\ lastCall.raised \in {"IoTHubClientError", "ProvisioningDeviceClientError"}
        /\ lastCall.code = lastCall.drv

(***************************************************************************)
(* Service client, IoTHubMessaging: cloud-to-device sends and their        *)
(* completion callback.  Send number i supplies callback i and context i.  *)
(***************************************************************************)
IOTHUB_MESSAGING_RESULT ==
    {"OK", "INVALID_ARG", "ERROR", "INVALID_JSON", "DEVICE_EXIST", "CALLBACK_NOT_SET"}

MsgSends == 1..MaxMsgSends

\* IoTHubMessaging::CreateContexts: one SendCompleteContext per messaging
\* object, allocated at construction with no callback in it (0).
CreateContexts == 0

\* The two assignments that open SendAsync and SendModuleAsync: the single
\* context now holds the callback and context of this send.
StoreSendCallback(i) == i

\* SendCompleteCallback line `messageResult = IOTHUB_MESSAGING_OK;`
SendCompleteCallback_Result(messageResult) == "OK"

\* Body shared by SendAsync and SendModuleAsync; r is the result of
\* IoTHubMessaging_SendAsync[Module]; a non-OK result throws and the driver
\* keeps nothing.
MessagingSend(r) ==
    /\ msgNext <= MaxMsgSends
    /\ sendCompleteContext' = StoreSendCallback(msgNext)
    /\ msgPending' = IF r = "OK" THEN msgPending \cup {msgNext} ELSE msgPending
    /\ msgNext' = msgNext + 1
    /\ UNCHANGED << msgDrvResult, msgInvoked, msgSeen >>
    /\ UNCHANGED << clientVars, callVars, mapVars, objectVars >>

SendAsync(r) == MessagingSend(r)

SendModuleAsync(r) == MessagingSend(r)

\* The driver completes accepted send i with outcome res: it calls
\* SendCompleteCallback with the context pointer it was given, which is the
\* shared context for every send.
SendCompleteCallback(i, res) ==
    /\ i \in msgPending
    /\ msgPending' = msgPending \ {i}
    /\ msgDrvResult' = [msgDrvResult EXCEPT ![i] = res]
    /\ msgInvoked' = [msgInvoked EXCEPT ![i] = sendCompleteContext]
    /\ msgSeen' = [msgSeen EXCEPT ![i] = SendCompleteCallback_Result(res)]
    /\ UNCHANGED << sendCompleteContext, msgNext >>
    /\ UNCHANGED << clientVars, callVars, mapVars, objectVars >>

InitMessaging ==
    /\ sendCompleteContext = CreateContexts
    /\ msgNext = 1
    /\ msgPending = {}
    /\ msgDrvResult = [i \in MsgSends |-> "none"]
    /\ msgInvoked = [i \in MsgSends |-> 0]
    /\ msgSeen = [i \in MsgSends |-> "none"]

NextMessaging ==
    \/ \E r \in IOTHUB_MESSAGING_RESULT : SendAsync(r)
    \/ \E r \in IOTHUB_MESSAGING_RESULT : SendModuleAsync(r)
    \/ \E i \in MsgSends, res \in IOTHUB_MESSAGING_RESULT : SendCompleteCallback(i, res)

\* C8: the completion callback of a cloud-to-device send receives the result
\* the driver reported for that send.
C8_CompletionSeesDriverResult ==
    \A i \in MsgSends :
        msgDrvResult[i] # "none" => msgSeen[i] = msgDrvResult[i]

\* C9: with several sends in flight, the completion of send i invokes the
\* callback (and context) that was supplied with send i.
C9_CompletionUsesOwnCallback ==
    \A i \in MsgSends :
        msgDrvResult[i] # "none" => msgInvoked[i] = i

(***************************************************************************)
(* IoTHubMap and the process-wide filter slot mapFilterCallback.           *)
(* Filter callbacks are numbered 1..MaxFilters; 0 is the empty slot.       *)
(***************************************************************************)
MapIds == 1..MaxMaps

Filters == 1..MaxFilters

NoMap == [state |-> "none", filter |-> FALSE, withFilter |-> 0]

\* Argument of a creation call: a callable (1..MaxFilters), None, or an
\* object that is neither.
None == 0

NotCallable == -1

FilterArgs == Filters \cup {None, NotCallable}

\* A Map object that was created with a filter callback is alive.
FilterMapAlive ==
    \E m \in MapIds : maps[m].state = "alive" /\ maps[m].withFilter # 0

FreeMapId == CHOOSE m \in MapIds : maps[m].state = "none"

MapOp(op, arg, raised) ==
    [op |-> op, arg |-> arg, raised |-> raised,
     slotBefore |-> mapFilterCallback, filterMapAlive |-> FilterMapAlive]

\* PyCallable_Check(mapFilterCallback.ptr()) in the filter constructor.
FilterInUse == mapFilterCallback # 0

\* IoTHubMap(): no filter.
MapCtorDefault(createOk) ==
    /\ \E m \in MapIds : maps[m].state = "none"
    /\ maps' = IF createOk
               THEN [maps EXCEPT ![FreeMapId] =
                        [state |-> "alive", filter |-> FALSE, withFilter |-> 0]]
               ELSE maps
    /\ lastMapOp' = MapOp("ctor", None, IF createOk THEN "none" ELSE "IoTHubMapError")
    /\ UNCHANGED mapFilterCallback
    /\ UNCHANGED << clientVars, callVars, messagingVars, objectVars >>

\* IoTHubMap(object& _mapFilterCallback); createOk is whether Map_Create
\* returned a handle.  A constructor that throws leaves no object, so the
\* destructor never runs for it.
MapCtorFilter(f, createOk) ==
    /\ \E m \in MapIds : maps[m].state = "none"
    /\ f \in FilterArgs
    /\ IF f \notin Filters
       THEN /\ lastMapOp' = MapOp("ctor_filter", f, "TypeError")
            /\ UNCHANGED << mapFilterCallback, maps >>
       ELSE IF FilterInUse
       THEN /\ lastMapOp' = MapOp("ctor_filter", f, "TypeError")
            /\ UNCHANGED << mapFilterCallback, maps >>
       ELSE /\ mapFilterCallback' = f
            /\ maps' = IF createOk
                       THEN [maps EXCEPT ![FreeMapId] =
                                [state |-> "alive", filter |-> TRUE, withFilter |-> f]]
                       ELSE maps
            /\ lastMapOp' = MapOp("ctor_filter", f,
                                  IF createOk THEN "none" ELSE "IoTHubMapError")
    /\ UNCHANGED << clientVars, callVars, messagingVars, objectVars >>

\* static IoTHubMap::Create: a callable is stored in the slot without looking
\* at what the slot holds; the object is built by IoTHubMap(MAP_HANDLE), whose
\* filter member is false.
MapCreate(f, createOk) ==
    /\ \E m \in MapIds : maps[m].state = "none"
    /\ f \in FilterArgs
    /\ IF f = NotCallable
       THEN /\ lastMapOp' = MapOp("Create", f, "TypeError")
            /\ UNCHANGED << mapFilterCallback, maps >>
       ELSE /\ mapFilterCallback' = IF f \in Filters THEN f ELSE mapFilterCallback
            /\ maps' = IF createOk
                       THEN [maps EXCEPT ![FreeMapId] =
                                [state |-> "alive", filter |-> FALSE,
                                 withFilter |-> IF f \in Filters THEN f ELSE 0]]
                       ELSE maps
            /\ lastMapOp' = MapOp("Create", f,
                                  IF createOk THEN "none" ELSE "IoTHubMapError")
    /\ UNCHANGED << clientVars, callVars, messagingVars, objectVars >>

\* ~IoTHubMap: the slot is emptied only by an object whose filter is true.
MapDtor(m) ==
    /\ maps[m].state = "alive"
    /\ maps' = [maps EXCEPT ![m] = [@ EXCEPT !.state = "dead"]]
    /\ mapFilterCallback' = IF maps[m].filter THEN 0 ELSE mapFilterCallback
    /\ lastMapOp' = MapOp("dtor", None, "none")
    /\ UNCHANGED << clientVars, callVars, messagingVars, objectVars >>

InitMap ==
    /\ mapFilterCallback = 0
    /\ maps = [m \in MapIds |-> NoMap]
    /\ lastMapOp = [op |-> "none", arg |-> None, raised |-> "none",
                    slotBefore |-> 0, filterMapAlive |-> FALSE]

NextMap ==
    \/ \E ok \in BOOLEAN : MapCtorDefault(ok)
    \/ \E f \in FilterArgs, ok \in BOOLEAN : MapCtorFilter(f, ok)
    \/ \E f \in FilterArgs, ok \in BOOLEAN : MapCreate(f, ok)
    \/ \E m \in MapIds : MapDtor(m)

\* The last operation tried to create a Map with a filter callback.
FilterCreationAttempt ==
    /\ lastMapOp.op \in {"ctor_filter", "Create"}
    /\ lastMapOp.arg \in Filters

\* C10: while a Map created with a filter is alive, every attempt to create
\* another Map with a filter raises a type error and leaves the filter slot
\* as it was; no creation path overwrites the active filter.
C10_SecondFilterFailsFast ==
    (FilterCreationAttempt /\ lastMapOp.filterMapAlive) =>
        /\ lastMapOp.raised = "TypeError"
        /\ mapFilterCallback = lastMapOp.slotBefore

\* C28: whenever no Map created with a filter callback is alive, the
\* process-wide filter slot is empty, so that after the registering Map is
\* destroyed, and after a construction with a filter fails, a new Map with a
\* filter can be created.
C28_SlotEmptyWithoutFilterMap == ~FilterMapAlive => mapFilterCallback = 0

(***************************************************************************)
(* IoTHubMap contents.  The Map store of the repository is the one in      *)
(* test/iothub_client_mock.cpp: one key buffer and one value buffer.       *)
(* Keys and values are numbered from 1; 0 is the empty buffer.  The empty  *)
(* string is not used as an argument.                                      *)
(***************************************************************************)
MAP_RESULT ==
    {"OK", "ERROR", "INVALIDARG", "KEYEXISTS", "KEYNOTFOUND", "FILTER_REJECT"}

Keys == 1..MaxKeys

Values == 1..MaxValues

\* What the user's filter returns for a pair.  A filter looks at the key and
\* at the value: filter f rejects (returns non-zero for) the pairs with
\* key + value <= f, so filter 1 accepts every pair.
UserFilter(f, key, value) == IF key + value <= f THEN 1 ELSE 0

\* MapFilterCallback: the value of the user's filter, converted to int.
MapFilterCallback(key, value) == UserFilter(mockFilterFunc, key, value)

\* The filter is not consulted.
MockFilter_NotConsulted(key, value) == "OK"

\* Map_Add / Map_AddOrUpdate, first part:
\* if (mockFilterFunc != NULL) result = mockFilterFunc(key, value) ?
\* MAP_FILTER_REJECT : MAP_OK.
MockFilter(key, value) ==
    IF mockFilterFunc # 0 /\ MapFilterCallback(key, value) # 0
    THEN "FILTER_REJECT"
    ELSE "OK"

\* Result of Map_Add: the filter first, then strcmp(mockKey, key).
Map_Add(key, value) ==
    IF MockFilter(key, value) # "OK" THEN MockFilter(key, value)
    ELSE IF mockKey = key THEN "KEYEXISTS"
    ELSE "OK"

\* Result of Map_AddOrUpdate.
Map_AddOrUpdate(key, value) == MockFilter(key, value)

\* Result of Map_Delete.
Map_Delete(key) == IF mockKey = key THEN "OK" ELSE "KEYNOTFOUND"

\* Map_ContainsKey fails for every key.
Map_ContainsKey_Fails(key) ==
    [result |-> "INVALIDARG", keyExists |-> mockKey = key]

\* Map_ContainsKey: result and *keyExists.
Map_ContainsKey(key) == [result |-> "OK", keyExists |-> mockKey = key]

\* Map_ContainsValue: result and *valueExists.
Map_ContainsValue(value) == [result |-> "OK", valueExists |-> mockValue = value]

\* Every IoTHubMap method ends in
\* `if (result != MAP_OK) throw IoTHubMapError(__func__, result)`.
MapThrow(result) == IF result # "OK" THEN "IoTHubMapError" ELSE "none"

MapCall(op, key, value, result, returned) ==
    [op |-> op, key |-> key, value |-> value, result |-> result,
     raised |-> MapThrow(result), returned |-> returned,
     keyBefore |-> mockKey, valueBefore |-> mockValue,
     rejected |-> (mockFilterFunc # 0
                      /\ UserFilter(mockFilterFunc, key, value) # 0)]

BoolStr(b) == IF b THEN "TRUE" ELSE "FALSE"

\* IoTHubMap(filter): Map_Create resets both buffers and sets the filter
\* (f = 0: the constructor without a filter).
IoTHubMap_New(f) ==
    /\ mockFilterFunc' = f
    /\ mockKey' = 0
    /\ mockValue' = 0
    /\ lastSuccess' = [k \in Keys |-> "none"]
    /\ lastMapCall' = [MapCall("create", 0, 0, "OK", "none") EXCEPT !.rejected = FALSE]
    /\ UNCHANGED << clientVars, callVars, messagingVars, mapVars >>

MapNew(f) ==
    /\ IoTHubMap_New(f)
    /\ UNCHANGED messageVars

\* IoTHubMap::Add
IoTHubMap_Add(key, value) ==
    /\ IF Map_Add(key, value) = "OK"
       THEN /\ mockKey' = key
            /\ mockValue' = value
            /\ lastSuccess' = [lastSuccess EXCEPT ![key] = "add"]
       ELSE UNCHANGED << mockKey, mockValue, lastSuccess >>
    /\ lastMapCall' = MapCall("add", key, value, Map_Add(key, value), "none")
    /\ UNCHANGED mockFilterFunc
    /\ UNCHANGED << clientVars, callVars, messagingVars, mapVars >>

MapAdd(key, value) ==
    /\ IoTHubMap_Add(key, value)
    /\ UNCHANGED messageVars

\* IoTHubMap::AddOrUpdate
IoTHubMap_AddOrUpdate(key, value) ==
    /\ IF Map_AddOrUpdate(key, value) = "OK"
       THEN /\ mockKey' = key
            /\ mockValue' = value
            /\ lastSuccess' = [lastSuccess EXCEPT ![key] = "add"]
       ELSE UNCHANGED << mockKey, mockValue, lastSuccess >>
    /\ lastMapCall' = MapCall("add_or_update", key, value,
                              Map_AddOrUpdate(key, value), "none")
    /\ UNCHANGED mockFilterFunc
    /\ UNCHANGED << clientVars, callVars, messagingVars, mapVars >>

MapAddOrUpdate(key, value) ==
    /\ IoTHubMap_AddOrUpdate(key, value)
    /\ UNCHANGED messageVars

\* IoTHubMap::Delete
IoTHubMap_Delete(key) ==
    /\ IF Map_Delete(key) = "OK"
       THEN /\ mockKey' = 0
            /\ mockValue' = 0
            /\ lastSuccess' = [lastSuccess EXCEPT ![key] = "delete"]
       ELSE UNCHANGED << mockKey, mockValue, lastSuccess >>
    /\ lastMapCall' = [MapCall("delete", key, 0, Map_Delete(key), "none")
                          EXCEPT !.rejected = FALSE]
    /\ UNCHANGED mockFilterFunc
    /\ UNCHANGED << clientVars, callVars, messagingVars, mapVars >>

MapDelete(key) ==
    /\ IoTHubMap_Delete(key)
    /\ UNCHANGED messageVars

\* IoTHubMap::ContainsKey
IoTHubMap_ContainsKey(key) ==
    /\ lastMapCall' =
           [MapCall("contains_key", key, 0, Map_ContainsKey(key).result,
                    IF Map_ContainsKey(key).result = "OK"
                    THEN BoolStr(Map_ContainsKey(key).keyExists)
                    ELSE "none")
               EXCEPT !.rejected = FALSE]
    /\ UNCHANGED << mockFilterFunc, mockKey, mockValue, lastSuccess >>
    /\ UNCHANGED << clientVars, callVars, messagingVars, mapVars >>

MapContainsKey(key) ==
    /\ IoTHubMap_ContainsKey(key)
    /\ UNCHANGED messageVars

\* IoTHubMap::ContainsValue
IoTHubMap_ContainsValue(value) ==
    /\ lastMapCall' =
           [MapCall("contains_value", 0, value, Map_ContainsValue(value).result,
                    IF Map_ContainsValue(value).result = "OK"
                    THEN BoolStr(Map_ContainsValue(value).valueExists)
                    ELSE "none")
               EXCEPT !.rejected = FALSE]
    /\ UNCHANGED << mockFilterFunc, mockKey, mockValue, lastSuccess >>
    /\ UNCHANGED << clientVars, callVars, messagingVars, mapVars >>

MapContainsValue(value) ==
    /\ IoTHubMap_ContainsValue(value)
    /\ UNCHANGED messageVars

InitMapContent ==
    /\ mockFilterFunc = 0
    /\ mockKey = 0
    /\ mockValue = 0
    /\ lastSuccess = [k \in Keys |-> "none"]
    /\ lastMapCall = [op |-> "none", key |-> 0, value |-> 0, result |-> "OK",
                      raised |-> "none", returned |-> "none", keyBefore |-> 0,
                      valueBefore |-> 0, rejected |-> FALSE]

NextMapContent ==
    \/ \E f \in Filters \cup {0} : MapNew(f)
    \/ \E k \in Keys, v \in Values : MapAdd(k, v)
    \/ \E k \in Keys, v \in Values : MapAddOrUpdate(k, v)
    \/ \E k \in Keys : MapDelete(k)
    \/ \E k \in Keys : MapContainsKey(k)
    \/ \E v \in Values : MapContainsValue(v)

\* C11: after any sequence of add and delete operations on a Map, for every
\* key k, contains_key(k) is true exactly when the last successful operation
\* on k was an add.
C11_ContainsKeyIsNetEffect ==
    \A k \in Keys :
        Map_ContainsKey(k).keyExists <=> (lastSuccess[k] = "add")

\* C12: on a key that is present, add always fails with KEYEXISTS and leaves
\* the stored value unchanged; add_or_update on it never fails with KEYEXISTS
\* and replaces the stored value (unless the filter rejects the pair, which
\* is C13's case).
C12_AddOnPresentKey ==
    /\ (lastMapCall.op = "add" /\ lastMapCall.keyBefore = lastMapCall.key) =>
           /\ lastMapCall.result = "KEYEXISTS"
           /\ lastMapCall.raised = "IoTHubMapError"
           /\ mockValue = lastMapCall.valueBefore
    /\ (lastMapCall.op = "add_or_update"
            /\ lastMapCall.keyBefore = lastMapCall.key) =>
           /\ lastMapCall.result # "KEYEXISTS"
           /\ ~lastMapCall.rejected =>
                  /\ lastMapCall.result = "OK"
                  /\ mockValue = lastMapCall.value

C14_ContainsNeverFails ==
    lastMapCall.op \in {"contains_key", "contains_value"} =>
        /\ lastMapCall.raised = "none"
        /\ lastMapCall.returned \in {"TRUE", "FALSE"}

\* contains_key answered FALSE for a key absent from a Map holding a pair.
C14_Witness ==
    /\ lastMapCall.op = "contains_key"
    /\ lastMapCall.returned = "FALSE"
    /\ mockKey # 0

(***************************************************************************)
(* IoTHubMessage.  The message store of the repository is the one in       *)
(* test/iothub_client_mock.cpp: one body buffer, one size and one kind     *)
(* flag, and one handle value for every message.  A body is a record       *)
(* [head, pad]: the bytes of head followed by pad zero bytes.              *)
(***************************************************************************)
IOTHUB_MESSAGE_RESULT == {"OK", "INVALID_ARG", "INVALID_TYPE", "ERROR"}

IOTHUBMESSAGE_CONTENT_TYPE == {"BYTEARRAY", "STRING", "UNKNOWN"}

Bytes == {1, 2}

Heads == UNION {[1..n -> Bytes] : n \in 1..MaxLen}

PadSizes == {0, MOCKMESSAGESIZE - 1, MOCKMESSAGESIZE}

\* Non-empty byte buffers a message is constructed from.
ByteBuffers == {[head |-> h, pad |-> p] : h \in Heads, p \in PadSizes}

\* Strings a message is constructed from (shorter than the store's buffer).
Strings == {[head |-> h, pad |-> 0] : h \in Heads}

NoBuffer == [head |-> << >>, pad |-> 0]

MsgIds == 1..MaxMessages

MockMessageHandle == "0x12345678"

NoMessage ==
    [state |-> "none", handle |-> "NULL", kind |-> "none", body |-> NoBuffer,
     cloneOf |-> 0]

Size(b) == Len(b.head) + b.pad

Min(a, b) == IF a <= b THEN a ELSE b

\* The first n bytes of b (memcpy of n bytes).
Prefix(b, n) ==
    IF Size(b) <= n
    THEN b
    ELSE [head |-> SubSeq(b.head, 1, Min(Len(b.head), n)),
          pad |-> n - Min(Len(b.head), n)]

\* IoTHubMessage_CreateFromByteArray:
\* mockSize = size > MOCKMESSAGESIZE ? MOCKMESSAGESIZE : size
CreateFromByteArray_Size(size) ==
    IF size > MOCKMESSAGESIZE THEN MOCKMESSAGESIZE ELSE size

\* IoTHubMessage_Clone: (void)handle; return mockMessageHandle.
IoTHubMessage_Clone(handle) == MockMessageHandle

\* IoTHubMessage_GetByteArray: result, *buffer and *size.
IoTHubMessage_GetByteArray(handle) ==
    IF mockString
    THEN [result |-> "INVALID_TYPE", buffer |-> NoBuffer]
    ELSE [result |-> "OK", buffer |-> Prefix(mockBuffer, mockSize)]

\* IoTHubMessage_GetString: NULL unless the store holds a string.
IoTHubMessage_GetString(handle) ==
    IF ~mockString
    THEN [null |-> TRUE, string |-> NoBuffer]
    ELSE [null |-> FALSE, string |-> mockBuffer]

\* IoTHubMessage_GetContentType
IoTHubMessage_GetContentType(handle) ==
    IF mockString THEN "STRING" ELSE "BYTEARRAY"

\* IoTHubMessage_Properties returns mockMapHandle for every message, and the
\* Map functions ignore the handle: the properties seen through a message are
\* the pair in the one Map store.
PropertiesView(handle) == << mockKey, mockValue >>

FreeMsgId == CHOOSE m \in MsgIds : messages[m].state = "none"

MsgCall(op, m, result, raised, isNone, buffer, kind) ==
    [op |-> op, msg |-> m, result |-> result, raised |-> raised,
     isNone |-> isNone, buffer |-> buffer, kind |-> kind]

MessageFrame ==
    UNCHANGED << clientVars, callVars, messagingVars, mapVars >>

\* IoTHubMessage(PyObject*) with a bytearray argument.
MsgFromBytes(b) ==
    /\ \E m \in MsgIds : messages[m].state = "none"
    /\ mockSize' = CreateFromByteArray_Size(Size(b))
    /\ mockBuffer' = Prefix(b, mockSize')
    /\ mockString' = FALSE
    /\ messages' = [messages EXCEPT ![FreeMsgId] =
                       [state |-> "alive", handle |-> MockMessageHandle,
                        kind |-> "BYTEARRAY", body |-> b, cloneOf |-> 0]]
    /\ lastMsgCall' = MsgCall("from_bytes", FreeMsgId, "OK", "none", TRUE,
                              NoBuffer, "none")
    /\ UNCHANGED mapContentVars
    /\ MessageFrame

\* IoTHubMessage(std::string): strncpy into the buffer, mockString = true;
\* mockSize is not written.
MsgFromString(str) ==
    /\ \E m \in MsgIds : messages[m].state = "none"
    /\ mockBuffer' = str
    /\ mockString' = TRUE
    /\ messages' = [messages EXCEPT ![FreeMsgId] =
                       [state |-> "alive", handle |-> MockMessageHandle,
                        kind |-> "STRING", body |-> str, cloneOf |-> 0]]
    /\ lastMsgCall' = MsgCall("from_string", FreeMsgId, "OK", "none", TRUE,
                              NoBuffer, "none")
    /\ UNCHANGED mockSize
    /\ UNCHANGED mapContentVars
    /\ MessageFrame

\* IoTHubMessage::Clone: new IoTHubMessage(IoTHubMessage_Clone(handle)).
MsgClone(m) ==
    /\ messages[m].state = "alive"
    /\ \E n \in MsgIds : messages[n].state = "none"
    /\ messages' = [messages EXCEPT ![FreeMsgId] =
                       [state |-> "alive",
                        handle |-> IoTHubMessage_Clone(messages[m].handle),
                        kind |-> messages[m].kind, body |-> messages[m].body,
                        cloneOf |-> m]]
    /\ lastMsgCall' = MsgCall("clone", m, "OK", "none", TRUE, NoBuffer, "none")
    /\ UNCHANGED << mockBuffer, mockSize, mockString >>
    /\ UNCHANGED mapContentVars
    /\ MessageFrame

\* ~IoTHubMessage: IoTHubMessage_Destroy does nothing to the store.
MsgDestroy(m) ==
    /\ messages[m].state = "alive"
    /\ messages' = [messages EXCEPT ![m] =
                       [@ EXCEPT !.state = "dead", !.handle = "NULL"]]
    /\ lastMsgCall' = MsgCall("destroy", m, "OK", "none", TRUE, NoBuffer, "none")
    /\ UNCHANGED << mockBuffer, mockSize, mockString >>
    /\ UNCHANGED mapContentVars
    /\ MessageFrame

\* IoTHubMessage::GetBytearray: throws IoTHubMessageError(result) unless the
\* result is OK.
MsgGetBytearray(m) ==
    /\ messages[m].state = "alive"
    /\ LET r == IoTHubMessage_GetByteArray(messages[m].handle)
       IN lastMsgCall' =
              MsgCall("get_bytearray", m, r.result,
                      IF r.result = "OK" THEN "none" ELSE "IoTHubMessageError",
                      FALSE, r.buffer, "none")
    /\ UNCHANGED << mockBuffer, mockSize, mockString, messages >>
    /\ UNCHANGED mapContentVars
    /\ MessageFrame

\* IoTHubMessage::GetString returns what IoTHubMessage_GetString returned;
\* a NULL const char* reaches Python as None and nothing is raised.
GetString_Raise(null) == "none"

MsgGetString(m) ==
    /\ messages[m].state = "alive"
    /\ LET r == IoTHubMessage_GetString(messages[m].handle)
       IN lastMsgCall' =
              MsgCall("get_string", m,
                      IF GetString_Raise(r.null) = "none" THEN "OK"
                      ELSE "INVALID_TYPE",
                      GetString_Raise(r.null), r.null, r.string, "none")
    /\ UNCHANGED << mockBuffer, mockSize, mockString, messages >>
    /\ UNCHANGED mapContentVars
    /\ MessageFrame

\* IoTHubMessage::GetContentType
MsgGetContentType(m) ==
    /\ messages[m].state = "alive"
    /\ lastMsgCall' =
           MsgCall("get_content_type", m, "OK", "none", FALSE, NoBuffer,
                   IoTHubMessage_GetContentType(messages[m].handle))
    /\ UNCHANGED << mockBuffer, mockSize, mockString, messages >>
    /\ UNCHANGED mapContentVars
    /\ MessageFrame

\* message.properties().add(key, value)
MsgPropAdd(m, key, value) ==
    /\ messages[m].state = "alive"
    /\ IoTHubMap_Add(key, value)
    /\ lastMsgCall' = MsgCall("prop_add", m, Map_Add(key, value),
                              MapThrow(Map_Add(key, value)), TRUE, NoBuffer,
                              "none")
    /\ UNCHANGED << mockBuffer, mockSize, mockString, messages >>

\* message.properties().add_or_update(key, value)
MsgPropAddOrUpdate(m, key, value) ==
    /\ messages[m].state = "alive"
    /\ IoTHubMap_AddOrUpdate(key, value)
    /\ lastMsgCall' = MsgCall("prop_add_or_update", m,
                              Map_AddOrUpdate(key, value),
                              MapThrow(Map_AddOrUpdate(key, value)), TRUE,
                              NoBuffer, "none")
    /\ UNCHANGED << mockBuffer, mockSize, mockString, messages >>

\* message.properties().delete(key)
MsgPropDelete(m, key) ==
    /\ messages[m].state = "alive"
    /\ IoTHubMap_Delete(key)
    /\ lastMsgCall' = MsgCall("prop_delete", m, Map_Delete(key),
                              MapThrow(Map_Delete(key)), TRUE, NoBuffer, "none")
    /\ UNCHANGED << mockBuffer, mockSize, mockString, messages >>

InitMessage ==
    /\ mockBuffer = NoBuffer
    /\ mockSize = 0
    /\ mockString = FALSE
    /\ messages = [m \in MsgIds |-> NoMessage]
    /\ lastMsgCall = MsgCall("none", 0, "OK", "none", TRUE, NoBuffer, "none")

NextMessage ==
    \/ \E b \in ByteBuffers : MsgFromBytes(b)
    \/ \E str \in Strings : MsgFromString(str)
    \/ \E m \in MsgIds : MsgClone(m)
    \/ \E m \in MsgIds : MsgDestroy(m)
    \/ \E m \in MsgIds : MsgGetBytearray(m)
    \/ \E m \in MsgIds : MsgGetString(m)
    \/ \E m \in MsgIds : MsgGetContentType(m)
    \/ \E m \in MsgIds, k \in Keys, v \in Values : MsgPropAdd(m, k, v)
    \/ \E m \in MsgIds, k \in Keys, v \in Values : MsgPropAddOrUpdate(m, k, v)
    \/ \E m \in MsgIds, k \in Keys : MsgPropDelete(m, k)

\* C15: reading a body with the accessor of the other kind fails with
\* INVALID_TYPE in both directions: get_bytearray on a message constructed
\* from a string, and get_string on a message constructed from bytes, raise
\* an error with that code and return no value.
C15_WrongAccessorFails ==
    /\ (lastMsgCall.op = "get_bytearray"
            /\ messages[lastMsgCall.msg].kind = "STRING") =>
           /\ lastMsgCall.raised = "IoTHubMessageError"
           /\ lastMsgCall.result = "INVALID_TYPE"
    /\ (lastMsgCall.op = "get_string"
            /\ messages[lastMsgCall.msg].kind = "BYTEARRAY") =>
           /\ lastMsgCall.raised = "IoTHubMessageError"
           /\ lastMsgCall.result = "INVALID_TYPE"

\* No message was constructed from bytes or from a string after message m.
LatestConstructed(m) ==
    \A n \in MsgIds :
        (n > m /\ messages[n].state # "none") => messages[n].cloneOf # 0

\* C16: a message constructed from a non-empty byte buffer b returns from
\* get_bytearray a buffer equal to b in length and content (no other message
\* having been constructed in between).
C16_BytesRoundTrip ==
    (lastMsgCall.op = "get_bytearray"
        /\ messages[lastMsgCall.msg].kind = "BYTEARRAY"
        /\ messages[lastMsgCall.msg].cloneOf = 0
        /\ LatestConstructed(lastMsgCall.msg)) =>
        /\ lastMsgCall.result = "OK"
        /\ Size(lastMsgCall.buffer) = Size(messages[lastMsgCall.msg].body)
        /\ lastMsgCall.buffer = messages[lastMsgCall.msg].body

\* C17: get_content_type of a message returns the kind the message was
\* constructed with, whatever other messages were created, cloned or
\* destroyed since.
C17_ContentTypeFixed ==
    lastMsgCall.op = "get_content_type" =>
        lastMsgCall.kind = messages[lastMsgCall.msg].kind

\* Message m and message n are an original and its clone.
CloneRelated(m, n) ==
    \/ messages[m].cloneOf = n
    \/ messages[n].cloneOf = m

\* C18: an add, add_or_update or delete on the properties of a message
\* leaves the properties of its clone, and of the message it was cloned from,
\* as they were before the call.
C18_ClonePropertiesIndependent ==
    lastMsgCall.op \in {"prop_add", "prop_add_or_update", "prop_delete"} =>
        \A n \in MsgIds :
            (messages[n].state = "alive" /\ CloneRelated(lastMsgCall.msg, n)) =>
                PropertiesView(messages[n].handle) =
                    << lastMapCall.keyBefore, lastMapCall.valueBefore >>

(***************************************************************************)
(* Claims about re-registration of the receive handler                     *)
(***************************************************************************)

\* C19: after any sequence of set_message_callback calls, a message handler
\* that runs while no registration is in progress is the handler of the most
\* recent registration that returned without raising; a handler that was
\* replaced is not invoked again.
C19_LatestHandlerInvoked ==
    \A w \in Workers :
        (/\ wPc[w] = "inCallback"
         /\ wJob[w].kind = "message"
         /\ newContext = NoHandler)
        => messageCallback[w] = activeHandler

(***************************************************************************)
(* Callback arguments: what each operation that takes a callback does with *)
(* the object it is given, in the device/module client, the provisioning   *)
(* client and the service Messaging client.                                *)
(***************************************************************************)
DeviceCallbackOps ==
    {"send_event_async", "set_message_callback",
     "set_connection_status_callback", "set_twin_callback",
     "send_reported_state", "set_method_callback",
     "set_device_method_callback_ex", "upload_blob_async"}

ProvCallbackOps == {"register_device"}

MessagingCallbackOps ==
    {"open", "send_async", "send_module_async", "set_feedback_message_callback"}

CallbackOps == DeviceCallbackOps \cup ProvCallbackOps \cup MessagingCallbackOps

\* The objects a caller passes as a callback: a callable or something else.
CallbackArgs == Handlers \cup {NotCallable}

PyCallable_Check(obj) == obj \in Handlers

NoUse == [op |-> "none", callable |-> TRUE, outcome |-> NoCall, before |-> None]

\* The callback-taking operations of IoTHubClient: PyCallable_Check first,
\* then the context is allocated and the driver is called.
IoTHubClient_CallbackOp(op, callable, r) ==
    IF ~callable
    THEN TypeErrorOutcome(op)
    ELSE ThrowingOutcome(op, r, "IoTHubClientError")

\* Open, SendAsync, SendModuleAsync and SetFeedbackMessageCallback of
\* IoTHubMessaging: the object is stored and the driver is called whatever
\* the object is.
IoTHubMessaging_CallbackOp(op, callable, r) ==
    ThrowingOutcome(op, r, "IoTHubMessagingError")

\* One call of operation op with the given outcome; stored is the object the
\* operation's context holds afterwards.
UseCallback(op, callable, outcome, stored) ==
    /\ numUses < MaxUses
    /\ numUses' = numUses + 1
    /\ lastUse' = [op |-> op, callable |-> callable, outcome |-> outcome,
                   before |-> callbackContext[op]]
    /\ callbackContext' = [callbackContext EXCEPT ![op] = stored]
    /\ UNCHANGED << lastCall, numCalls, auxVars >>
    /\ UNCHANGED << clientVars, messagingVars, mapVars, objectVars >>

\* The context of a device client operation is allocated after the check and
\* is the driver's once the driver accepted the call.
DeviceCallbackOp(op, obj, r) ==
    UseCallback(op, PyCallable_Check(obj),
                IoTHubClient_CallbackOp(op, PyCallable_Check(obj), r),
                IF PyCallable_Check(obj) /\ r = "OK" THEN obj
                                                     ELSE callbackContext[op])

\* Register_Device checks both of its callbacks before anything else.
ProvCallbackOp(register_callback, register_status_callback, r) ==
    LET callable == /\ PyCallable_Check(register_callback)
                    /\ PyCallable_Check(register_status_callback)
    IN  UseCallback("register_device", callable,
                    ProvisioningDeviceClient_Register_Device(callable, r),
                    IF callable /\ r = "OK" THEN register_callback
                                            ELSE callbackContext["register_device"])

\* The Messaging client writes the object into its one context per kind
\* before the driver call.
MessagingCallbackOp(op, obj, r) ==
    UseCallback(op, PyCallable_Check(obj),
                IoTHubMessaging_CallbackOp(op, PyCallable_Check(obj), r),
                obj)

InitUsage ==
    /\ callbackContext = [op \in CallbackOps |-> None]
    /\ lastUse = NoUse
    /\ numUses = 0

NextUsage ==
    \/ \E op \in DeviceCallbackOps, obj \in CallbackArgs, r \in IOTHUB_CLIENT_RESULT :
           DeviceCallbackOp(op, obj, r)
    \/ \E a, b \in CallbackArgs, r \in PROV_DEVICE_RESULT : ProvCallbackOp(a, b, r)
    \/ \E op \in MessagingCallbackOps, obj \in CallbackArgs,
          r \in IOTHUB_MESSAGING_RESULT :
           MessagingCallbackOp(op, obj, r)

\* C20: a call that passes a non-callable as a callback raises TypeError
\* before any driver call is made and leaves the callback held for that
\* operation unchanged, in the device/module client, the provisioning client
\* and the service Messaging client.
C20_NonCallableFailsLocally ==
    ~lastUse.callable =>
        /\ lastUse.outcome.raised = "TypeError"
        /\ ~lastUse.outcome.called
        /\ callbackContext[lastUse.op] = lastUse.before

(***************************************************************************)
(* Retry policy: IoTHubClient::SetRetryPolicy hands the policy kind and   *)
(* the timeout limit to the driver; the driver's retry engine (spec 4.4)   *)
(* decides on reconnect attempts and reports through                       *)
(* ConnectionStatusCallback.                                               *)
(***************************************************************************)
IOTHUB_CLIENT_RETRY_POLICY ==
    {"RETRY_NONE", "RETRY_IMMEDIATE", "RETRY_INTERVAL", "RETRY_LINEAR_BACKOFF",
     "RETRY_EXPONENTIAL_BACKOFF", "RETRY_EXPONENTIAL_BACKOFF_WITH_JITTER",
     "RETRY_RANDOM"}

TimeoutLimits == 0..MaxTimeout

NoStatus == [result |-> "none", reason |-> "none"]

\* The limit SetRetryPolicy passes to IoTHub*Client_SetRetryPolicy.
SetRetryPolicy_LimitDropped(retryTimeoutLimitInSeconds) == 0

SetRetryPolicy_Limit(retryTimeoutLimitInSeconds) == retryTimeoutLimitInSeconds

\* What ConnectionStatusCallback hands to the user callback.
ConnectionStatusCallback(result, reason) == [result |-> result, reason |-> reason]

RECURSIVE Pow2(_)
Pow2(n) == IF n = 0 THEN 1 ELSE 2 * Pow2(n - 1)

\* Delays the engine may choose for an attempt, in units of one second.
RetryDelays(kind, attemptNumber) ==
    LET exp == IF Pow2(attemptNumber) > MaxDelay THEN MaxDelay
                                                 ELSE Pow2(attemptNumber)
    IN  CASE kind = "RETRY_IMMEDIATE" -> {0}
          [] kind = "RETRY_INTERVAL" -> {1}
          [] kind = "RETRY_LINEAR_BACKOFF" -> {attemptNumber}
          [] kind = "RETRY_EXPONENTIAL_BACKOFF" -> {exp}
          [] kind = "RETRY_EXPONENTIAL_BACKOFF_WITH_JITTER" -> exp..(2 * exp - 1)
          [] kind = "RETRY_RANDOM" -> 0..(MaxDelay - 1)
          [] OTHER -> {}

\* The decision of the retry engine.
RetryDecision(kind, elapsedSeconds, timeoutLimit) ==
    IF timeoutLimit > 0 /\ elapsedSeconds > timeoutLimit THEN "expired"
    ELSE IF kind = "RETRY_NONE" THEN "stop"
    ELSE "retry"

\* IoTHubClient::SetRetryPolicy; r is the driver's result, and the driver
\* keeps the policy when it returns OK.
RetrySetPolicy(kind, limit, r) ==
    /\ connection \in {"connected", "retrying"}
    /\ IF r = "OK"
       THEN /\ retryPolicy' = kind
            /\ retryTimeoutLimit' = SetRetryPolicy_Limit(limit)
            /\ requestedLimit' = limit
       ELSE UNCHANGED << retryPolicy, retryTimeoutLimit, requestedLimit >>
    /\ UNCHANGED << connection, elapsed, attempt, nextAttemptAt, lateRetry,
                    statusSeen >>
    /\ UNCHANGED << baseVars, authVars, platformVars, lockVars, methodVars, raceVars >>

\* The connection fails for the first time.
ConnectionFails ==
    /\ connection = "connected"
    /\ connection' = "retrying"
    /\ elapsed' = 0
    /\ attempt' = 0
    /\ nextAttemptAt' = 0
    /\ UNCHANGED << retryPolicy, retryTimeoutLimit, requestedLimit, lateRetry,
                    statusSeen >>
    /\ UNCHANGED << baseVars, authVars, platformVars, lockVars, methodVars, raceVars >>

\* One second passes while the session is not connected.
Tick ==
    /\ connection = "retrying"
    /\ elapsed < MaxElapsed
    /\ elapsed' = elapsed + 1
    /\ UNCHANGED << retryPolicy, retryTimeoutLimit, requestedLimit, connection,
                    attempt, nextAttemptAt, lateRetry, statusSeen >>
    /\ UNCHANGED << baseVars, authVars, platformVars, lockVars, methodVars, raceVars >>

\* The engine schedules a reconnect attempt.
RetryAttempt(delay) ==
    /\ connection = "retrying"
    /\ elapsed >= nextAttemptAt
    /\ RetryDecision(retryPolicy, elapsed, retryTimeoutLimit) = "retry"
    /\ delay \in RetryDelays(retryPolicy, attempt)
    /\ attempt < MaxAttempts
    /\ attempt' = attempt + 1
    /\ nextAttemptAt' = elapsed + delay
    /\ lateRetry' = (lateRetry \/ (requestedLimit > 0 /\ elapsed > requestedLimit))
    /\ UNCHANGED << retryPolicy, retryTimeoutLimit, requestedLimit, connection,
                    elapsed, statusSeen >>
    /\ UNCHANGED << baseVars, authVars, platformVars, lockVars, methodVars, raceVars >>

\* The engine gives up: the policy is RETRY_NONE, or the limit is exceeded
\* and the driver reports RETRY_EXPIRED through ConnectionStatusCallback.
RetryStop ==
    /\ connection = "retrying"
    /\ elapsed >= nextAttemptAt
    /\ RetryDecision(retryPolicy, elapsed, retryTimeoutLimit) # "retry"
    /\ IF RetryDecision(retryPolicy, elapsed, retryTimeoutLimit) = "expired"
       THEN /\ connection' = "expired"
            /\ statusSeen' = ConnectionStatusCallback("UNAUTHENTICATED",
                                                      "RETRY_EXPIRED")
       ELSE /\ connection' = "stopped"
            /\ UNCHANGED statusSeen
    /\ UNCHANGED << retryPolicy, retryTimeoutLimit, requestedLimit, elapsed,
                    attempt, nextAttemptAt, lateRetry >>
    /\ UNCHANGED << baseVars, authVars, platformVars, lockVars, methodVars, raceVars >>

\* A scheduled attempt succeeds; the driver reports CONNECTION_OK.
Reconnected ==
    /\ connection = "retrying"
    /\ attempt > 0
    /\ connection' = "connected"
    /\ statusSeen' = ConnectionStatusCallback("AUTHENTICATED", "CONNECTION_OK")
    /\ UNCHANGED << retryPolicy, retryTimeoutLimit, requestedLimit, elapsed,
                    attempt, nextAttemptAt, lateRetry >>
    /\ UNCHANGED << baseVars, authVars, platformVars, lockVars, methodVars, raceVars >>

InitRetry ==
    /\ retryPolicy = "RETRY_EXPONENTIAL_BACKOFF_WITH_JITTER"
    /\ retryTimeoutLimit = 0
    /\ requestedLimit = 0
    /\ connection = "connected"
    /\ elapsed = 0
    /\ attempt = 0
    /\ nextAttemptAt = 0
    /\ lateRetry = FALSE
    /\ statusSeen = NoStatus

NextRetry ==
    \/ \E kind \in IOTHUB_CLIENT_RETRY_POLICY, limit \in TimeoutLimits,
          r \in IOTHUB_CLIENT_RESULT :
           RetrySetPolicy(kind, limit, r)
    \/ ConnectionFails
    \/ Tick
    \/ \E delay \in 0..(2 * MaxDelay) : RetryAttempt(delay)
    \/ RetryStop
    \/ Reconnected

ServiceClientIds == 1..MaxClients

ServiceClientKinds ==
    {"RegistryManager", "Messaging", "DeviceMethod", "DeviceTwin"}

NoServiceClient == [state |-> "none", kind |-> "none", authHandle |-> "NULL"]

\* The driver is given the auth handle (to create from it or to destroy it).
AuthHandleUsed == authStale \/ authNative = "destroyed"

\* IoTHubServiceClientAuth(connectionString); ok is whether the driver
\* returned a handle.
AuthCreate(ok) ==
    /\ authObject.state = "none"
    /\ IF ok
       THEN /\ authObject' = [state |-> "live", handle |-> "h"]
            /\ authNative' = "live"
       ELSE /\ authObject' = [state |-> "failed", handle |-> "NULL"]
            /\ UNCHANGED authNative
    /\ UNCHANGED << authDestroyed, serviceClients, authStale >>
    /\ UNCHANGED << baseVars, retryVars, platformVars, lockVars, methodVars, raceVars >>

\* ~IoTHubServiceClientAuth of the object the application holds.
AuthDestroy ==
    /\ authObject.state = "live"
    /\ authObject' = [state |-> "destroyed", handle |-> "NULL"]
    /\ authNative' = "destroyed"
    /\ authDestroyed' = authDestroyed + 1
    /\ authStale' = AuthHandleUsed
    /\ UNCHANGED serviceClients
    /\ UNCHANGED << baseVars, retryVars, platformVars, lockVars, methodVars, raceVars >>

\* A service client constructor taking IoTHubServiceClientAuth by value:
\* the parameter is a copy of the application's object holding the same
\* handle; the handle is stored and given to the driver's create function
\* (createOk: it returned a handle); when the constructor is left, by return
\* or by throw, the parameter's destructor destroys the handle.
ServiceClientCreate(c, kind, createOk) ==
    /\ authObject.state = "live"
    /\ serviceClients[c].state = "none"
    /\ authStale' = AuthHandleUsed
    /\ serviceClients' = [serviceClients EXCEPT ![c] =
           [state |-> IF createOk THEN "live" ELSE "failed",
            kind |-> kind,
            authHandle |-> IF createOk THEN authObject.handle ELSE "NULL"]]
    /\ authNative' = "destroyed"
    /\ authDestroyed' = authDestroyed + 1
    /\ UNCHANGED authObject
    /\ UNCHANGED << baseVars, retryVars, platformVars, lockVars, methodVars, raceVars >>

\* Destroy() of a service client, run by its destructor: the client handle
\* is destroyed, then the stored auth handle if it is not NULL.
ServiceClientDestroy(c) ==
    /\ serviceClients[c].state = "live"
    /\ serviceClients' = [serviceClients EXCEPT ![c] =
           [@ EXCEPT !.state = "destroyed", !.authHandle = "NULL"]]
    /\ IF serviceClients[c].authHandle # "NULL"
       THEN /\ authStale' = AuthHandleUsed
            /\ authNative' = "destroyed"
            /\ authDestroyed' = authDestroyed + 1
       ELSE UNCHANGED << authStale, authNative, authDestroyed >>
    /\ UNCHANGED authObject
    /\ UNCHANGED << baseVars, retryVars, platformVars, lockVars, methodVars, raceVars >>

InitAuth ==
    /\ authNative = "none"
    /\ authDestroyed = 0
    /\ authObject = [state |-> "none", handle |-> "NULL"]
    /\ serviceClients = [c \in ServiceClientIds |-> NoServiceClient]
    /\ authStale = FALSE

NextAuth ==
    \/ \E ok \in BOOLEAN : AuthCreate(ok)
    \/ AuthDestroy
    \/ \E c \in ServiceClientIds, kind \in ServiceClientKinds, createOk \in BOOLEAN :
           ServiceClientCreate(c, kind, createOk)
    \/ \E c \in ServiceClientIds : ServiceClientDestroy(c)

\* C22: with service clients made from one shared IoTHubServiceClientAuth
\* object, the native auth handle is destroyed at most once, and the driver
\* is never given the handle after it was destroyed, in every order of
\* constructing and destroying the clients and the auth object.
C22_AuthHandleDestroyedOnce ==
    /\ authDestroyed <= 1
    /\ ~authStale

(***************************************************************************)
(* PlatformCallHandler and the constructors and destructor of the device   *)
(* and module clients (iothub_client_python.cpp)                           *)
(***************************************************************************)
ClientObjectIds == 1..MaxClients

\* The constructors exported to Python that call Platform_Init.
ClientConstructors == {"connection_string", "transport", "device_auth"}

LiveClients == {c \in ClientObjectIds : clientObjects[c] # "none"}

\* PlatformCallHandler::Platform_Init.
Platform_Init ==
    /\ init_call_count' = init_call_count + 1
    /\ IF init_call_count = 0
       THEN /\ platformUp' = TRUE
            /\ platformCalls' = Append(platformCalls, "init")
       ELSE UNCHANGED << platformUp, platformCalls >>

\* PlatformCallHandler::Platform_DeInit.
Platform_DeInit ==
    /\ init_call_count' = init_call_count - 1
    /\ IF init_call_count = 1
       THEN /\ platformUp' = FALSE
            /\ platformCalls' = Append(platformCalls, "deinit")
       ELSE UNCHANGED << platformUp, platformCalls >>

\* A constructor that creates the driver handle; ok is whether the driver
\* returned one.  When it did not, the constructor throws and no object and
\* no later destructor call exist.
ClientConstruct(c, ctor, ok) ==
    /\ numCtors < MaxCtors
    /\ clientObjects[c] = "none"
    /\ ctor \in ClientConstructors
    /\ Platform_Init
    /\ clientObjects' = IF ok THEN [clientObjects EXCEPT ![c] = "live"]
                              ELSE clientObjects
    /\ numCtors' = numCtors + 1
    /\ UNCHANGED deinitWhileAlive
    /\ UNCHANGED << baseVars, retryVars, authVars, lockVars, methodVars, raceVars >>

\* IoTHubModuleClient(): the handle is NULL and Platform_Init is not called.
ModuleClientDefault(c) ==
    /\ numCtors < MaxCtors
    /\ clientObjects[c] = "none"
    /\ clientObjects' = [clientObjects EXCEPT ![c] = "live_no_handle"]
    /\ numCtors' = numCtors + 1
    /\ UNCHANGED << init_call_count, platformUp, platformCalls, deinitWhileAlive >>
    /\ UNCHANGED << baseVars, retryVars, authVars, lockVars, methodVars, raceVars >>

\* IoTHubModuleClient::CreateFromEnvironment on a module client made with the
\* no-argument constructor; a failure throws and leaves the object as it was.
CreateFromEnvironment(c, ok) ==
    /\ clientObjects[c] = "live_no_handle"
    /\ clientObjects' = IF ok THEN [clientObjects EXCEPT ![c] = "live"]
                              ELSE clientObjects
    /\ UNCHANGED << init_call_count, platformUp, platformCalls, numCtors,
                    deinitWhileAlive >>
    /\ UNCHANGED << baseVars, retryVars, authVars, lockVars, methodVars, raceVars >>

\* ~IoTHubClient: the driver handle is destroyed if there is one, then
\* Platform_DeInit is called.
ClientDestruct(c) ==
    /\ clientObjects[c] # "none"
    /\ clientObjects' = [clientObjects EXCEPT ![c] = "none"]
    /\ Platform_DeInit
    /\ deinitWhileAlive' =
           (deinitWhileAlive \/ (init_call_count = 1 /\ LiveClients # {c}))
    /\ UNCHANGED numCtors
    /\ UNCHANGED << baseVars, retryVars, authVars, lockVars, methodVars, raceVars >>

\* The state after the module import, which calls Platform_Init once.
InitPlatform ==
    /\ init_call_count = 1
    /\ platformUp = TRUE
    /\ platformCalls = << "init" >>
    /\ clientObjects = [c \in ClientObjectIds |-> "none"]
    /\ numCtors = 0
    /\ deinitWhileAlive = FALSE

NextPlatform ==
    \/ \E c \in ClientObjectIds, ctor \in ClientConstructors, ok \in BOOLEAN :
           ClientConstruct(c, ctor, ok)
    \/ \E c \in ClientObjectIds : ModuleClientDefault(c)
    \/ \E c \in ClientObjectIds, ok \in BOOLEAN : CreateFromEnvironment(c, ok)
    \/ \E c \in ClientObjectIds : ClientDestruct(c)

\* C23: over any sequence of constructing and destroying device and module
\* clients, init_call_count is 1 plus the number of live client objects, so
\* it is never negative, and platform_deinit is never called while a client
\* is alive.
C23_InitCountMatchesLiveClients ==
    /\ init_call_count = 1 + Cardinality(LiveClients)
    /\ init_call_count >= 0
    /\ ~deinitWhileAlive

(***************************************************************************)
(* Termination of the destructor                                           *)
(***************************************************************************)

\* Scheduling: a driver thread that can run does run, a thread waiting for
\* the interpreter lock gets it once it stays free, a user callback returns,
\* and the driver's destroy completes every pending send and then returns.
DestroyFairness ==
    /\ WF_vars(\E w \in Workers, op \in Ops : DriverDestroyFlush(w, op))
    /\ \A w \in Workers : WF_vars(TrampolineCall(w))
    /\ \A w \in Workers :
           WF_vars(\E outcome \in UserOutcomes : TrampolineReturn(w, outcome))
    /\ WF_vars(DestroyFinish)

C25_SendContextReleased ==
    \A op \in Ops :
        (sendContext[op] = "allocated" \/ eventMessage[op] = "alive") =>
            /\ op \notin drvAccepted =>
                   (appPc = "inDriver" /\ appOp = "send_event_async")
            /\ op \in drvAccepted => clientState # "destroyed"

(***************************************************************************)
(* Use of the interpreter lock, statement by statement, in the callback    *)
(* trampolines and in the synchronous operations that release the lock.    *)
(***************************************************************************)
Threads == Workers \cup {"app"}

\* Statements of each function in program order.  Destructors of locals run
\* in reverse order of declaration when their scope is left.
RoutineSteps ==
    [SendConfirmationCallback |->
         << "copy_refs", "ScopedGILAcquire", "call_user", "~ScopedGILAcquire",
            "delete_context", "delete_message", "drop_refs" >>,
     ReceiveMessageCallback |->
         << "copy_refs", "new_message", "ScopedGILAcquire", "call_user",
            "~ScopedGILAcquire", "delete_message", "extract_result",
            "drop_refs" >>,
     FeedbackMessageReceivedCallback |->
         << "copy_refs", "build_list", "ScopedGILAcquire", "call_user",
            "~ScopedGILAcquire", "drop_list", "drop_refs" >>,
     RegisterDeviceCallback |->
         << "copy_refs", "ScopedGILAcquire", "call_user", "~ScopedGILAcquire",
            "drop_refs" >>,
     ProvSetOption |->
         << "ScopedGILRelease", "check_value", "extract_value", "driver_call",
            "~ScopedGILRelease" >>,
     GetDeviceList |->
         << "new_list", "ScopedGILRelease", "driver_call", "append",
            "~ScopedGILRelease" >>,
     GetModuleList |->
         << "new_list", "ScopedGILRelease", "driver_call", "append",
            "~ScopedGILRelease" >>,
     DeviceAuthConstructor |->
         << "ScopedGILRelease", "Platform_Init", "driver_call", "throw",
            "~ScopedGILRelease" >>]

\* The extern "C" functions the driver calls on its threads.
TrampolineRoutines ==
    {"SendConfirmationCallback", "ReceiveMessageCallback",
     "FeedbackMessageReceivedCallback", "RegisterDeviceCallback"}

\* The methods the application calls from Python.
SyncRoutines ==
    {"ProvSetOption", "GetDeviceList", "GetModuleList", "DeviceAuthConstructor"}

\* PyGILState_Ensure and PyEval_RestoreThread wait for the lock and take it.
LockTaking == {"ScopedGILAcquire", "~ScopedGILRelease"}

\* PyGILState_Release and PyEval_SaveThread give it up.
LockDropping == {"~ScopedGILAcquire", "ScopedGILRelease"}

\* Statements that read, create, convert or release interpreter objects:
\* copies and destructors of boost::python::object, list and dict building,
\* PyString_Check / extract<>, and the call of the user callback.
TouchesInterpreter ==
    {"copy_refs", "drop_refs", "delete_context", "build_list", "drop_list",
     "call_user", "extract_result", "check_value", "extract_value", "new_list",
     "append"}

NoTouch == << "none", "none" >>

\* A thread enters a function: a driver thread a trampoline, the
\* application thread, which holds the lock in Python, a method.
RoutineStart(t, r) ==
    /\ routine[t] = "none"
    /\ IF t = "app" THEN r \in SyncRoutines /\ lockHolder = "app"
                    ELSE r \in TrampolineRoutines
    /\ routine' = [routine EXCEPT ![t] = r]
    /\ routinePc' = [routinePc EXCEPT ![t] = 1]
    /\ UNCHANGED << lockHolder, unlockedTouch >>
    /\ UNCHANGED << baseVars, retryVars, authVars, platformVars, methodVars, raceVars >>

\* A thread executes its next statement.
RoutineStep(t) ==
    LET r == routine[t]
        st == RoutineSteps[r][routinePc[t]]
    IN  /\ r # "none"
        /\ st \in LockTaking => lockHolder = "none"
        /\ lockHolder' = CASE st \in LockTaking -> t
                           [] st \in LockDropping -> "none"
                           [] OTHER -> lockHolder
        /\ unlockedTouch' = IF st \in TouchesInterpreter /\ lockHolder # t
                            THEN << r, st >>
                            ELSE unlockedTouch
        /\ IF routinePc[t] = Len(RoutineSteps[r])
           THEN /\ routine' = [routine EXCEPT ![t] = "none"]
                /\ routinePc' = [routinePc EXCEPT ![t] = 0]
           ELSE /\ routinePc' = [routinePc EXCEPT ![t] = @ + 1]
                /\ UNCHANGED routine
        /\ UNCHANGED << baseVars, retryVars, authVars, platformVars, methodVars, raceVars >>

InitLock ==
    /\ routine = [t \in Threads |-> "none"]
    /\ routinePc = [t \in Threads |-> 0]
    /\ lockHolder = "app"
    /\ unlockedTouch = NoTouch

NextLock ==
    \/ \E t \in Threads, r \in TrampolineRoutines \cup SyncRoutines :
           RoutineStart(t, r)
    \/ \E t \in Threads : RoutineStep(t)

\* C26: in every callback trampoline, every statement that manipulates
\* interpreter objects (copying the callback and user-context references,
\* building the arguments, releasing the context) runs while the calling
\* thread holds the interpreter lock.
C26_TrampolinesTouchUnderLock == unlockedTouch[1] \notin TrampolineRoutines

\* C27: no synchronous operation inspects, converts or creates interpreter
\* objects between releasing the interpreter lock and reacquiring it.
C27_SyncOpsTouchUnderLock == unlockedTouch[1] \notin SyncRoutines

(***************************************************************************)
(* Device methods: SetMethodCallback and the DeviceMethodCallback          *)
(* trampoline with its output parameters response and resp_size.           *)
(***************************************************************************)
\* status members of the DeviceMethodReturnValue the user callback returns.
MethodStatuses == {200, 404}

\* What *response can hold: NULL, a buffer obtained by the trampoline's
\* malloc, or whatever the caller's variable held before the call.
ResponseBuffers == {"NULL", "malloc", "caller"}

ResponseSizes == 0..MaxResponse

NoMethodCall ==
    [outcome |-> "none", status |-> 0, length |-> 0, mallocOk |-> TRUE,
     response |-> "NULL", resp_size |-> 0]

NoMethodReturn == [retVal |-> 0, response |-> "NULL", resp_size |-> 0]

\* SetMethodCallback: a non-callable is refused before anything is
\* allocated; the context is handed to the driver, which keeps it when it
\* returns IOTHUB_CLIENT_OK.
SetMethodCallback(callable, r) ==
    /\ methodContext' = IF callable /\ r = "OK" THEN "registered"
                        ELSE methodContext
    /\ UNCHANGED << methodCall, methodReturn, numMethodCalls >>
    /\ UNCHANGED << baseVars, retryVars, authVars, platformVars, lockVars, raceVars >>

\* The body of DeviceMethodCallback.  before is the content of the caller's
\* response and resp_size variables when the call is made; the function
\* writes them only on the path on which the user callback returned a
\* DeviceMethodReturnValue.
DeviceMethodReturn(outcome, status, length, mallocOk, before) ==
    IF outcome = "value"
    THEN [retVal |-> status,
          response |-> IF mallocOk THEN "malloc" ELSE "NULL",
          resp_size |-> IF mallocOk THEN length ELSE 0]
    ELSE [retVal |-> -1,
          response |-> before.response,
          resp_size |-> before.resp_size]

\* The driver delivers a method call to the registered trampoline.
DeviceMethodCall(outcome, status, length, mallocOk, before) ==
    /\ methodContext = "registered"
    /\ numMethodCalls < MaxMethodCalls
    /\ numMethodCalls' = numMethodCalls + 1
    /\ methodCall' = [outcome |-> outcome, status |-> status,
                      length |-> length, mallocOk |-> mallocOk,
                      response |-> before.response,
                      resp_size |-> before.resp_size]
    /\ methodReturn' = DeviceMethodReturn(outcome, status, length, mallocOk, before)
    /\ UNCHANGED methodContext
    /\ UNCHANGED << baseVars, retryVars, authVars, platformVars, lockVars, raceVars >>

InitMethod ==
    /\ methodContext = "none"
    /\ methodCall = NoMethodCall
    /\ methodReturn = NoMethodReturn
    /\ numMethodCalls = 0

NextMethod ==
    \/ \E callable \in BOOLEAN, r \in {"OK", "ERROR"} :
           SetMethodCallback(callable, r)
    \/ \E outcome \in UserOutcomes, status \in MethodStatuses,
          length \in ResponseSizes, mallocOk \in BOOLEAN,
          before \in [response : {"NULL", "caller"}, resp_size : ResponseSizes] :
           DeviceMethodCall(outcome, status, length, mallocOk, before)

\* C30: DeviceMethodCallback assigns the response buffer and the response
\* size on every return path: the buffer is never what the caller's
\* variable held, and when the user callback raised or returned something
\* that is not a DeviceMethodReturnValue the status is -1 and the response
\* is empty.
C30_MethodResponseAssigned ==
    methodCall.outcome # "none" =>
        /\ methodReturn.response # "caller"
        /\ methodCall.outcome \in {"raise", "bad_value"} =>
               /\ methodReturn.retVal = -1
               /\ methodReturn.response = "NULL"
               /\ methodReturn.resp_size = 0

(***************************************************************************)
(* Constructors and destructors on different threads.  A constructor runs  *)
(* Platform_Init inside its ScopedGILRelease block, so any number of them  *)
(* can be inside Platform_Init at once; a destructor runs Platform_DeInit  *)
(* with the interpreter lock held.  init_call_count is a plain static int: *)
(* the test, the load and the store of init_call_count++ are separate      *)
(* steps.                                                                  *)
(***************************************************************************)
PlatformThreads == {"t1", "t2"}

InitPcs == {"init_test", "platform_init", "init_load", "init_store"}

DeInitPcs == {"deinit_test", "platform_deinit", "deinit_load", "deinit_store"}

\* The thread that holds the interpreter lock is inside a destructor.
InDestructor == \E t \in PlatformThreads : threadPc[t] \in DeInitPcs

\* Thread t calls a client constructor from Python and reaches
\* Platform_Init after releasing the interpreter lock.  The object exists
\* for Python when the constructor has returned.
ThreadConstruct(t, c) ==
    /\ numCtors < MaxCtors
    /\ threadPc[t] = "idle"
    /\ ~InDestructor
    /\ clientObjects[c] = "none"
    /\ clientObjects' = [clientObjects EXCEPT ![c] = "constructing"]
    /\ threadObject' = [threadObject EXCEPT ![t] = c]
    /\ numCtors' = numCtors + 1
    /\ threadPc' = [threadPc EXCEPT ![t] = "init_test"]
    /\ UNCHANGED << init_call_count, platformUp, platformCalls,
                    deinitWhileAlive, threadCount, netInitCalls >>
    /\ UNCHANGED << baseVars, retryVars, authVars, lockVars, methodVars >>

\* One step of Platform_Init on thread t:
\* if (init_call_count == 0) platform_init(); init_call_count++;
PlatformInitStep(t) ==
    /\ threadPc[t] \in InitPcs
    /\ CASE threadPc[t] = "init_test" ->
              /\ threadPc' = [threadPc EXCEPT ![t] =
                                 IF init_call_count = 0 THEN "platform_init"
                                                        ELSE "init_load"]
              /\ UNCHANGED << init_call_count, platformUp, platformCalls,
                              threadCount, netInitCalls, clientObjects >>
         [] threadPc[t] = "platform_init" ->
              /\ platformUp' = TRUE
              /\ platformCalls' = Append(platformCalls, "init")
              /\ threadPc' = [threadPc EXCEPT ![t] = "init_load"]
              /\ UNCHANGED << init_call_count, threadCount, netInitCalls,
                              clientObjects >>
         [] threadPc[t] = "init_load" ->
              /\ threadCount' = [threadCount EXCEPT ![t] = init_call_count]
              /\ threadPc' = [threadPc EXCEPT ![t] = "init_store"]
              /\ UNCHANGED << init_call_count, platformUp, platformCalls,
                              netInitCalls, clientObjects >>
         [] threadPc[t] = "init_store" ->
              /\ init_call_count' = threadCount[t] + 1
              /\ netInitCalls' = netInitCalls + 1
              /\ threadPc' = [threadPc EXCEPT ![t] = "idle"]
              /\ clientObjects' =
                     [clientObjects EXCEPT ![threadObject[t]] = "live"]
              /\ UNCHANGED << platformUp, platformCalls, threadCount >>
    /\ UNCHANGED << numCtors, deinitWhileAlive, threadObject >>
    /\ UNCHANGED << baseVars, retryVars, authVars, lockVars, methodVars >>

\* Thread t, holding the interpreter lock, destroys a client whose
\* constructor has returned and reaches Platform_DeInit.
ThreadDestruct(t, c) ==
    /\ threadPc[t] = "idle"
    /\ ~InDestructor
    /\ clientObjects[c] = "live"
    /\ clientObjects' = [clientObjects EXCEPT ![c] = "none"]
    /\ threadPc' = [threadPc EXCEPT ![t] = "deinit_test"]
    /\ UNCHANGED << init_call_count, platformUp, platformCalls, numCtors,
                    deinitWhileAlive, threadCount, threadObject, netInitCalls >>
    /\ UNCHANGED << baseVars, retryVars, authVars, lockVars, methodVars >>

\* One step of Platform_DeInit on thread t:
\* if (init_call_count == 1) platform_deinit(); init_call_count--;
PlatformDeInitStep(t) ==
    /\ threadPc[t] \in DeInitPcs
    /\ CASE threadPc[t] = "deinit_test" ->
              /\ threadPc' = [threadPc EXCEPT ![t] =
                                 IF init_call_count = 1 THEN "platform_deinit"
                                                        ELSE "deinit_load"]
              /\ UNCHANGED << init_call_count, platformUp, platformCalls,
                              threadCount, netInitCalls >>
         [] threadPc[t] = "platform_deinit" ->
              /\ platformUp' = FALSE
              /\ platformCalls' = Append(platformCalls, "deinit")
              /\ threadPc' = [threadPc EXCEPT ![t] = "deinit_load"]
              /\ UNCHANGED << init_call_count, threadCount, netInitCalls >>
         [] threadPc[t] = "deinit_load" ->
              /\ threadCount' = [threadCount EXCEPT ![t] = init_call_count]
              /\ threadPc' = [threadPc EXCEPT ![t] = "deinit_store"]
              /\ UNCHANGED << init_call_count, platformUp, platformCalls,
                              netInitCalls >>
         [] threadPc[t] = "deinit_store" ->
              /\ init_call_count' = threadCount[t] - 1
              /\ netInitCalls' = netInitCalls - 1
              /\ threadPc' = [threadPc EXCEPT ![t] = "idle"]
              /\ UNCHANGED << platformUp, platformCalls, threadCount >>
    /\ UNCHANGED << clientObjects, numCtors, deinitWhileAlive, threadObject >>
    /\ UNCHANGED << baseVars, retryVars, authVars, lockVars, methodVars >>

InitRace ==
    /\ threadPc = [t \in PlatformThreads |-> "idle"]
    /\ threadCount = [t \in PlatformThreads |-> 0]
    /\ threadObject = [t \in PlatformThreads |-> 1]
    /\ netInitCalls = 0

NextRace ==
    \/ \E t \in PlatformThreads, c \in ClientObjectIds : ThreadConstruct(t, c)
    \/ \E t \in PlatformThreads : PlatformInitStep(t)
    \/ \E t \in PlatformThreads, c \in ClientObjectIds : ThreadDestruct(t, c)
    \/ \E t \in PlatformThreads : PlatformDeInitStep(t)

\* platform_init and platform_deinit were called in strict alternation.
PlatformCallsAlternate ==
    \A i \in 1..(Len(platformCalls) - 1) : platformCalls[i] # platformCalls[i + 1]

\* C29: with constructors and destructors running on different threads, no
\* update of init_call_count is lost (when no thread is inside
\* Platform_Init or Platform_DeInit the counter is one plus the completed
\* Platform_Init calls minus the completed Platform_DeInit calls), and
\* platform_init and platform_deinit strictly alternate.
C29_NoLostUpdateAndAlternation ==
    /\ (\A t \in PlatformThreads : threadPc[t] = "idle") =>
           init_call_count = 1 + netInitCalls
    /\ PlatformCallsAlternate

(***************************************************************************)
(* Specifications.  Every specification starts from the state after        *)
(* construction of all object groups and moves one group.                  *)
(***************************************************************************)
Init ==
    /\ InitClient
    /\ InitCalls
    /\ InitUsage
    /\ InitRetry
    /\ InitAuth
    /\ InitPlatform
    /\ InitLock
    /\ InitMethod
    /\ InitRace
    /\ InitMessaging
    /\ InitMap
    /\ InitMapContent
    /\ InitMessage

SpecSend == Init /\ [][NextSend]_vars

SpecSendLive == Init /\ [][NextSend]_vars /\ DestroyFairness

SpecCallbacks == Init /\ [][NextCallbacks]_vars

SpecReceive == Init /\ [][NextReceive]_vars

SpecUsage == Init /\ [][NextUsage]_vars

SpecRetry == Init /\ [][NextRetry]_vars

SpecAuth == Init /\ [][NextAuth]_vars

SpecPlatform == Init /\ [][NextPlatform]_vars

SpecLock == Init /\ [][NextLock]_vars

SpecMethod == Init /\ [][NextMethod]_vars

SpecRace == Init /\ [][NextRace]_vars

SpecCalls == Init /\ [][NextCalls]_vars

SpecMessaging == Init /\ [][NextMessaging]_vars

SpecMap == Init /\ [][NextMap]_vars

SpecMapContent == Init /\ [][NextMapContent]_vars

SpecMessage == Init /\ [][NextMessage]_vars

====
